---- MODULE Spec2Model ----
(***************************************************************************)
(* Mule-Mart: a state-machine model of the JSON API handlers               *)
(* (app/api/items_routes.py, users_routes.py, chat_routes.py) and of the   *)
(* server-rendered listing pages (app/main.py).                            *)
(*                                                                         *)
(* Text is modelled as a sequence of one-character strings, so that        *)
(* strip(), lower(), replace() and substring matching are computed.        *)
(* Message bodies, whose length limit is 5000, are kept run-length         *)
(* encoded (a sequence of [ch, n] runs); their length and strip() are      *)
(* computed on the runs.                                                   *)
(*                                                                         *)
(* Every handler is one atomic action: the request is served by one        *)
(* worker and the ORM session is committed once, or discarded when the     *)
(* handler returns early.  A handler's action gives the tables after the   *)
(* request; its HTTP status is the handler's _status operator.  `last`     *)
(* holds the request just served and the status it was answered with; a    *)
(* specification records it when it submits the request.                   *)
(***************************************************************************)
EXTENDS Integers, Sequences, FiniteSets, Bags, TLC

VARIABLES
    items,            \* table item: a sequence, the row with id i at index i
    favorites,        \* association table behind User.favorites: a bag of <<user_id, item_id>>
    recently_viewed,  \* table recently_viewed: a set of rows [id, user_id, item_id, viewed_at]
    chats,            \* table chat: a set of rows
    next_chat_id,     \* the chat table's autoincrement counter
    clock,            \* datetime.utcnow(), advanced by every write that reads it
    accounts,         \* table user: a sequence, the row with id u at index u
    bucket,           \* the storage bucket: the set of object keys in it
    deleted_files,    \* the keys delete_file has been called with
    inflight,         \* the requests that have read the tables and not yet committed: a bag
    last              \* the request just served and its answer

\* The user table and the bucket, which the item and chat handlers leave alone.
accountVars == <<accounts, bucket, deleted_files>>

vars == <<items, favorites, recently_viewed, chats, next_chat_id, clock,
          accounts, bucket, deleted_files, inflight, last>>

---------------------------------------------------------------------------
(* Bounds of the model *)

MaxUsers == 2
\* item rows in Spec
MaxItems == 2
\* item rows in OwnerSpec, FavSpec and ViewSpec
MaxOwnedItems == 1
MaxFavItems == 1
MaxViewItems == 1
\* ViewSpec stops tracking views when the clock reads this
MaxViewClock == 4
\* chat rows in ChatSpec and in LimitSpec
MaxMsgs == 2
MaxLimitMsgs == 2
\* users who update their profile in ProfileSpec
MaxProfileUsers == 1
\* accounts created in AuthSpec
MaxSignups == 2
\* items in FieldSpec
MaxFieldItems == 1
\* messages sent in MessageSpec
MaxSentMsgs == 2
\* seconds that pass in UrlSpec
MaxSeconds == 2
\* requests served at the same time, items created and views committed in RaceSpec
MaxInflight == 2
MaxRaceItems == 1
MaxRaceClock == 4
\* messages sent in ReadSpec
MaxReadMsgs == 2

Users == 1 .. MaxUsers
\* current_user of a request without a session (flask_login's AnonymousUserMixin)
Anon == 0
\* a user id that names no row of the users table
NoSuchUser == MaxUsers + 1

---------------------------------------------------------------------------
(* Text helpers *)

None == <<"<None>">>
Absent == <<"<absent>">>

SetMin(S) == CHOOSE x \in S : \A y \in S : x <= y
SetMax(S) == CHOOSE x \in S : \A y \in S : x >= y

IsSpace(c) == c = " "

\* str.strip()
Strip(s) ==
    LET idx == {i \in 1 .. Len(s) : ~IsSpace(s[i])}
    IN  IF idx = {} THEN <<>> ELSE SubSeq(s, SetMin(idx), SetMax(idx))

LowerChar(c) ==
    CASE c = "A" -> "a"
      [] c = "B" -> "b"
      [] c = "P" -> "p"
      [] c = "N" -> "n"
      [] c = "G" -> "g"
      [] OTHER -> c

\* str.lower()
Lower(s) == [i \in 1 .. Len(s) |-> LowerChar(s[i])]

\* str.replace(c, '')
Remove(s, c) == SelectSeq(s, LAMBDA x : x # c)

\* q in s
Contains(s, q) ==
    \E k \in 0 .. (Len(s) - Len(q)) : SubSeq(s, k + 1, k + Len(q)) = q

\* column.ilike('%q%'); a NULL column matches nothing
ILike(s, q) == s # None /\ Contains(Lower(s), Lower(q))

\* value.strip() or None
StripOrNone(s) == IF Strip(s) = <<>> THEN None ELSE Strip(s)

Digits == <<"0", "1", "2", "3", "4", "5", "6", "7", "8", "9">>
IsDigit(c) == \E d \in 1 .. 10 : Digits[d] = c
DigitVal(c) == (CHOOSE d \in 1 .. 10 : Digits[d] = c) - 1

RECURSIVE DigitsVal(_)
DigitsVal(s) ==
    IF s = <<>> THEN 0
    ELSE 10 * DigitsVal(SubSeq(s, 1, Len(s) - 1)) + DigitVal(s[Len(s)])

\* float('nan'): a value of its own, outside the numbers.  Every comparison
\* with it is false, which FloatLess computes.
NaN == 0 - 1000000

\* a < b on floats
FloatLess(a, b) == a # NaN /\ b # NaN /\ a < b

\* float(s) for the texts the model submits, decimal integers and "nan" in
\* any case: [ok |-> FALSE] is ValueError
ParseFloat(s) ==
    LET neg  == s # <<>> /\ s[1] = "-"
        body == IF neg THEN Tail(s) ELSE s
    IN  IF Lower(body) = <<"n", "a", "n">> THEN [ok |-> TRUE, v |-> NaN]
        ELSE IF body # <<>> /\ \A i \in 1 .. Len(body) : IsDigit(body[i])
        THEN [ok |-> TRUE, v |-> IF neg THEN 0 - DigitsVal(body) ELSE DigitsVal(body)]
        ELSE [ok |-> FALSE, v |-> 0]

---------------------------------------------------------------------------
(* Pagination and ordering *)

\* query.offset((page - 1) * per_page).limit(per_page)
Paginate(s, page, per_page) ==
    SubSeq(s, (page - 1) * per_page + 1,
           IF page * per_page < Len(s) THEN page * per_page ELSE Len(s))

\* query.limit(n)
Limit(s, n) == SubSeq(s, 1, IF n < Len(s) THEN n ELSE Len(s))

\* (total + per_page - 1) // per_page
Pages(total, per_page) == (total + per_page - 1) \div per_page

Range(s) == {s[i] : i \in 1 .. Len(s)}

ItemIds == 1 .. Len(items)

\* the ids of the item rows satisfying Keep, in primary-key order
SelectItems(Keep(_)) == SelectSeq([i \in ItemIds |-> i], Keep)

\* ORDER BY created_at / price; rows that tie are returned in primary-key order
ByCreatedDesc(s) ==
    SortSeq(s, LAMBDA a, b : items[a].created_at > items[b].created_at
                             \/ (items[a].created_at = items[b].created_at /\ a < b))
ByCreatedAsc(s) ==
    SortSeq(s, LAMBDA a, b : items[a].created_at < items[b].created_at
                             \/ (items[a].created_at = items[b].created_at /\ a < b))
ByPriceAsc(s) ==
    SortSeq(s, LAMBDA a, b : items[a].price < items[b].price
                             \/ (items[a].price = items[b].price /\ a < b))
ByPriceDesc(s) ==
    SortSeq(s, LAMBDA a, b : items[a].price > items[b].price
                             \/ (items[a].price = items[b].price /\ a < b))

---------------------------------------------------------------------------
(* Items: request data *)

\* len(title) > 150 is refused by create_item
TitleMax == 150

ALLOWED_EXTENSIONS ==
    { <<"p", "n", "g">>, <<"j", "p", "g">>, <<"j", "p", "e", "g">>,
      <<"g", "i", "f">>, <<"w", "e", "b", "p">> }

\* '.' in filename and filename.rsplit('.', 1)[1].lower() in ALLOWED_EXTENSIONS
allowed_file(filename) ==
    LET dots == {i \in 1 .. Len(filename) : filename[i] = "."}
    IN  /\ dots # {}
        /\ Lower(SubSeq(filename, SetMax(dots) + 1, Len(filename))) \in ALLOWED_EXTENSIONS

\* An uploaded file part: [t |-> "none"] when the request has no 'image' part.
NoFile == [t |-> "none", name |-> <<>>]
File(name) == [t |-> "file", name |-> name]

\* The stored path, or None for a part without a filename or with a refused
\* extension.  The "%Y%m%d_%H%M%S_" prefix of the stored name is left out.
save_uploaded_file(file) ==
    IF file.name = <<>> THEN None
    ELSE IF ~allowed_file(file.name) THEN None
    ELSE <<"u", "/">> \o file.name

\* A submitted price: a JSON/form string, a JSON number, or no 'price' key.
PStr(s) == [t |-> "str", s |-> s, v |-> 0]
PNum(v) == [t |-> "num", s |-> <<>>, v |-> v]
PAbsent == [t |-> "absent", s |-> <<>>, v |-> 0]

\* A submitted is_active: a JSON boolean, a string, or no 'is_active' key.
BBool(b) == [t |-> "bool", b |-> b, s |-> <<>>]
BStr(s) == [t |-> "str", b |-> FALSE, s |-> s]
BAbsent == [t |-> "absent", b |-> FALSE, s |-> <<>>]

\* bool(data['is_active'])
PyBool(x) == IF x.t = "bool" THEN x.b ELSE x.s # <<>>

(* Items: create_item *)

\* price_str.replace('$', '').replace(',', '').strip(), then float()
CleanPrice(s) == ParseFloat(Strip(Remove(Remove(s, "$"), ",")))

\* The price validation of create_item: [ok, v]; ok = FALSE adds errors['price'].
\* A JSON number has no .replace (AttributeError, caught); 0 and '' are falsy.
create_price(p) ==
    CASE p.t = "absent" -> [ok |-> FALSE, v |-> 0]
      [] p.t = "num" -> [ok |-> FALSE, v |-> 0]
      [] OTHER ->
            IF p.s = <<>> THEN [ok |-> FALSE, v |-> 0]
            ELSE LET f == CleanPrice(p.s)
                 IN  IF f.ok /\ ~FloatLess(f.v, 0) THEN f ELSE [ok |-> FALSE, v |-> 0]

create_title_ok(title) == title # <<>> /\ Len(title) <= TitleMax

\* The row Item(...) builds; is_active and is_deleted take the column defaults.
NewItem(u, d) ==
    [ title       |-> Strip(d.title),
      description |-> StripOrNone(d.description),
      category    |-> StripOrNone(d.category),
      size        |-> StripOrNone(d.size),
      seller_type |-> StripOrNone(d.seller_type),
      condition   |-> StripOrNone(d.condition),
      price       |-> create_price(d.price).v,
      image_url   |-> IF d.image.t = "file" THEN save_uploaded_file(d.image) ELSE None,
      is_active   |-> TRUE,
      is_deleted  |-> FALSE,
      seller_id   |-> u,
      created_at  |-> clock ]

create_item_status(u, d) ==
    IF u = Anon THEN 401
    ELSE IF ~create_title_ok(Strip(d.title)) \/ ~create_price(d.price).ok THEN 400
    ELSE 201

\* The record of a served request: the handler, current_user, the id in the
\* URL (0 when it has none) and the HTTP status of the answer.
Answer(op, u, arg, status) == [op |-> op, user |-> u, arg |-> arg, status |-> status]
\* The same without the requester and the id.
Brief(op, status) == Answer(op, 0, 0, status)
\* The same with the whole response.
Replied(op, u, arg, response) ==
    [op |-> op, user |-> u, arg |-> arg, status |-> response.status, body |-> response]
\* The same with the data the request submitted.
WithData(op, u, arg, status, data) ==
    [op |-> op, user |-> u, arg |-> arg, status |-> status, data |-> data]
\* The same with the length of the text the request submitted.
Sized(op, u, arg, status, len) ==
    [op |-> op, user |-> u, arg |-> arg, status |-> status, len |-> len]

create_item(u, d, cap) ==
    LET st == create_item_status(u, d)
    IN  /\ st = 201 => Len(items) < cap
        /\ items' = IF st = 201 THEN Append(items, NewItem(u, d)) ELSE items
        /\ clock' = IF st = 201 THEN clock + 1 ELSE clock
        /\ UNCHANGED <<favorites, recently_viewed, chats, next_chat_id>>
        /\ UNCHANGED <<accountVars, inflight>>

(* Items: update_item and delete_item *)

\* float(str(data['price']).replace('$', '').replace(',', '').strip()); str() of a
\* JSON integer parses back to the same number.
update_price(p) == IF p.t = "num" THEN [ok |-> TRUE, v |-> p.v] ELSE CleanPrice(p.s)

\* The row as the handler has assigned it when it reaches db.session.commit().
update_item_row(id, d) ==
    LET it == items[id]
    IN  [ it EXCEPT
            !.title       = IF d.title = Absent THEN @ ELSE Strip(d.title),
            !.description = IF d.description = Absent THEN @ ELSE StripOrNone(d.description),
            !.category    = IF d.category = Absent THEN @ ELSE StripOrNone(d.category),
            !.size        = IF d.size = Absent THEN @ ELSE StripOrNone(d.size),
            !.seller_type = IF d.seller_type = Absent THEN @ ELSE StripOrNone(d.seller_type),
            !.condition   = IF d.condition = Absent THEN @ ELSE StripOrNone(d.condition),
            !.price       = IF d.price.t = "absent" THEN @ ELSE update_price(d.price).v,
            !.is_active   = IF d.is_active.t = "absent" THEN @ ELSE PyBool(d.is_active),
            !.image_url   = IF d.image.t = "file" THEN save_uploaded_file(d.image) ELSE @ ]

\* update_item without the ownership check
update_authorized_anyone(u, id) == TRUE

\* Whether the requester may change the row (item.seller_id != current_user.id -> 403).
update_authorized(u, id) == items[id].seller_id = u

update_item_status(u, id, d) ==
    IF u = Anon THEN 401
    ELSE IF id \notin ItemIds THEN 404
    ELSE IF ~update_authorized(u, id) THEN 403
    ELSE IF d.title # Absent /\ Strip(d.title) = <<>> THEN 400
    ELSE IF d.price.t # "absent"
            /\ (~update_price(d.price).ok \/ FloatLess(update_price(d.price).v, 0)) THEN 400
    ELSE IF d.image.t = "file" /\ save_uploaded_file(d.image) = None THEN 400
    ELSE 200

\* a session that writes every assignment through as it is made: a request
\* refused for its price or image keeps the title it assigned before
row_after_request_written_through(id, d, st) ==
    IF st = 200 THEN update_item_row(id, d)
    ELSE IF d.title # Absent /\ Strip(d.title) # <<>>
    THEN [items[id] EXCEPT !.title = Strip(d.title)]
    ELSE items[id]

\* A handler that returns before db.session.commit() leaves the table as it was:
\* the assignments it made live in the request's session, which is discarded.
row_after_request(id, d, st) == IF st = 200 THEN update_item_row(id, d) ELSE items[id]

update_item(u, id, d) ==
    LET st == update_item_status(u, id, d)
    IN  /\ items' = IF st \in {200, 400}
                    THEN [items EXCEPT ![id] = row_after_request(id, d, st)]
                    ELSE items
        /\ UNCHANGED <<favorites, recently_viewed, chats, next_chat_id, clock>>
        /\ UNCHANGED <<accountVars, inflight>>

delete_authorized(u, id) == items[id].seller_id = u

delete_item_status(u, id) ==
    IF u = Anon THEN 401
    ELSE IF id \notin ItemIds THEN 404
    ELSE IF ~delete_authorized(u, id) THEN 403
    ELSE 200

delete_item(u, id) ==
    LET st == delete_item_status(u, id)
    IN  /\ items' = IF st = 200 THEN [items EXCEPT ![id].is_active = FALSE] ELSE items
        /\ UNCHANGED <<favorites, recently_viewed, chats, next_chat_id, clock>>
        /\ UNCHANGED <<accountVars, inflight>>

(* Items: get_item and the recently-viewed upsert *)

\* get_item answering for every row it finds
get_item_status_any_row(id) == IF id \notin ItemIds THEN 404 ELSE 200

get_item_status(id) == IF id \notin ItemIds \/ ~items[id].is_active THEN 404 ELSE 200

\* RecentlyViewed.query.filter_by(user_id, item_id)
ExistingViews(u, id) == {r \in recently_viewed : r.user_id = u /\ r.item_id = id}

\* .first(): the row with the lowest primary key
FirstView(u, id) == CHOOSE r \in ExistingViews(u, id) : \A q \in ExistingViews(u, id) : r.id <= q.id

NewView(u, id) ==
    [id |-> Cardinality(recently_viewed) + 1, user_id |-> u, item_id |-> id, viewed_at |-> clock]

\* get_item inserting a row at every view
track_view_insert_only(u, id) == recently_viewed \cup {NewView(u, id)}

\* The table after the upsert of lines 171-182.
track_view(u, id) ==
    IF ExistingViews(u, id) # {}
    THEN (recently_viewed \ {FirstView(u, id)})
            \cup {[FirstView(u, id) EXCEPT !.viewed_at = clock]}
    ELSE recently_viewed \cup {NewView(u, id)}

get_item(u, id, cap) ==
    LET st == get_item_status(id)
        tracked == st = 200 /\ u # Anon
    IN  /\ tracked => clock < cap
        /\ recently_viewed' = IF tracked THEN track_view(u, id) ELSE recently_viewed
        /\ clock' = IF tracked THEN clock + 1 ELSE clock
        /\ UNCHANGED <<items, favorites, chats, next_chat_id>>
        /\ UNCHANGED <<accountVars, inflight>>

(* Items: favorites *)

\* current_user.favorites.filter_by(id=item.id).first()
is_favorite(u, id) == CopiesIn(<<u, id>>, favorites) > 0

add_favorite_status(u, id) ==
    IF u = Anon THEN 401
    ELSE IF id \notin ItemIds \/ ~items[id].is_active THEN 404
    ELSE 200

\* add_favorite appending without looking for the association
favorites_after_add_unchecked(u, id) == favorites (+) SetToBag({<<u, id>>})

\* The association table after add_favorite's lines 451-453.
favorites_after_add(u, id) ==
    IF ~is_favorite(u, id) THEN favorites (+) SetToBag({<<u, id>>}) ELSE favorites

add_favorite(u, id) ==
    LET st == add_favorite_status(u, id)
    IN  /\ favorites' = IF st = 200 THEN favorites_after_add(u, id) ELSE favorites
        /\ UNCHANGED <<items, recently_viewed, chats, next_chat_id, clock>>
        /\ UNCHANGED <<accountVars, inflight>>

remove_favorite_status(u, id) ==
    IF u = Anon THEN 401
    ELSE IF id \notin ItemIds THEN 404
    ELSE 200

\* The association table after remove_favorite's lines 480-482: the DELETE
\* names (user_id, item_id) and removes every row of the pair.
favorites_after_remove(u, id) ==
    IF is_favorite(u, id)
    THEN [p \in BagToSet(favorites) \ {<<u, id>>} |-> favorites[p]]
    ELSE favorites

remove_favorite(u, id) ==
    LET st == remove_favorite_status(u, id)
    IN  /\ favorites' = IF st = 200 THEN favorites_after_remove(u, id) ELSE favorites
        /\ UNCHANGED <<items, recently_viewed, chats, next_chat_id, clock>>
        /\ UNCHANGED <<accountVars, inflight>>

---------------------------------------------------------------------------
(* Items: add_favorite and get_item as two steps, the existence check and
   the commit, so that requests served by different workers interleave *)

\* A request between its existence check and its commit; seen is what the
\* check found.
Pending(op, u, id, seen) == [op |-> op, user |-> u, arg |-> id, seen |-> seen]

\* A worker is free to take a request.
WorkerFree == BagCardinality(inflight) < MaxInflight

\* add_favorite up to the check of line 451
add_favorite_check(u, id) ==
    /\ add_favorite_status(u, id) = 200
    /\ inflight' = inflight (+) SetToBag({Pending("add_favorite", u, id, is_favorite(u, id))})
    /\ UNCHANGED <<items, favorites, recently_viewed, chats, next_chat_id, clock>>
    /\ UNCHANGED accountVars

\* an append that looks for the association again when it commits
favorites_at_commit_rechecked(r) ==
    IF ~r.seen /\ ~is_favorite(r.user, r.arg)
    THEN favorites (+) SetToBag({<<r.user, r.arg>>})
    ELSE favorites

\* The association table after lines 452-453, run by a request whose check
\* found r.seen.
favorites_at_commit(r) ==
    IF ~r.seen THEN favorites (+) SetToBag({<<r.user, r.arg>>}) ELSE favorites

add_favorite_commit(r) ==
    /\ favorites' = favorites_at_commit(r)
    /\ inflight' = inflight (-) SetToBag({r})
    /\ UNCHANGED <<items, recently_viewed, chats, next_chat_id, clock>>
    /\ UNCHANGED accountVars

\* get_item up to the query of lines 171-174, for a signed-in user
get_item_check(u, id) ==
    /\ u # Anon /\ get_item_status(id) = 200
    /\ inflight' = inflight (+) SetToBag({Pending("get_item", u, id, ExistingViews(u, id) # {})})
    /\ UNCHANGED <<items, favorites, recently_viewed, chats, next_chat_id, clock>>
    /\ UNCHANGED accountVars

\* The table after lines 176-182, run by a request whose query found r.seen:
\* the row it found gets a new viewed_at, or a new row is added.
views_at_commit(r) ==
    IF r.seen
    THEN (recently_viewed \ {FirstView(r.user, r.arg)})
            \cup {[FirstView(r.user, r.arg) EXCEPT !.viewed_at = clock]}
    ELSE recently_viewed \cup {NewView(r.user, r.arg)}

get_item_commit(r, cap) ==
    /\ clock < cap
    /\ recently_viewed' = views_at_commit(r)
    /\ clock' = clock + 1
    /\ inflight' = inflight (-) SetToBag({r})
    /\ UNCHANGED <<items, favorites, chats, next_chat_id>>
    /\ UNCHANGED accountVars

---------------------------------------------------------------------------
(* Items: the listing endpoints, as the response each computes from the tables *)

\* per_page of list_items when the request names none, or one outside 1..100
ListDefaultPerPage == 20
ListMaxPerPage == 100

\* list_items lines 81-84
list_page(page) == IF page < 1 THEN 1 ELSE page
list_per_page(per_page) ==
    IF per_page < 1 \/ per_page > ListMaxPerPage THEN ListDefaultPerPage ELSE per_page

\* min(max(per_page, 1), 100) and max(page, 1) of the users and chat endpoints
clamp_page(page) == IF page < 1 THEN 1 ELSE page
clamp_per_page(per_page) ==
    IF per_page < 1 THEN 1 ELSE IF per_page > ListMaxPerPage THEN ListMaxPerPage ELSE per_page

\* Item.semantic_search(search, limit): the rows whose title or description
\* shares the search text, at most `limit` of them.
semantic_search(search, limit) ==
    Limit(SelectItems(LAMBDA i : ILike(items[i].title, search)
                                 \/ ILike(items[i].description, search)), limit)

\* list_items without its is_active filter
list_items_base_unfiltered(i) == TRUE

\* The base query of list_items (line 87).
list_items_base(i) == items[i].is_active

\* The rows list_items selects, before ordering.
list_items_filter(q, i) ==
    /\ list_items_base(i)
    /\ Strip(q.search) # <<>> => i \in Range(semantic_search(Strip(q.search), ListMaxPerPage))
    /\ Strip(q.category) # <<>> => items[i].category = Strip(q.category)
    /\ Strip(q.seller_type) # <<>> => items[i].seller_type = Strip(q.seller_type)
    /\ Strip(q.condition) # <<>> => items[i].condition = Strip(q.condition)

OrderItems(s, sort_by) ==
    CASE sort_by = "oldest" -> ByCreatedAsc(s)
      [] sort_by = "price_low" -> ByPriceAsc(s)
      [] sort_by = "price_high" -> ByPriceDesc(s)
      [] OTHER -> ByCreatedDesc(s)

\* GET /items: data.items (as ids) and data.pagination
list_items(q) ==
    LET rows == OrderItems(SelectItems(LAMBDA i : list_items_filter(q, i)), q.sort_by)
        page == list_page(q.page)
        per_page == list_per_page(q.per_page)
    IN  [ items    |-> Paginate(rows, page, per_page),
          page     |-> page,
          per_page |-> per_page,
          total    |-> Len(rows),
          pages    |-> Pages(Len(rows), per_page) ]

AutoDefaultLimit == 8
AutoMaxLimit == 50

\* The base query of autocomplete (line 516).
autocomplete_base(i) == items[i].is_active

\* GET /items/autocomplete: the ids of data
autocomplete(query, limit) ==
    LET lim == IF limit < 1 \/ limit > AutoMaxLimit THEN AutoDefaultLimit ELSE limit
    IN  IF Strip(query) = <<>> THEN <<>>
        ELSE Limit(ByCreatedDesc(SelectItems(
                LAMBDA i : autocomplete_base(i) /\ ILike(items[i].title, Strip(query)))), lim)

\* The query of get_user_listings (lines 64-66).
user_listings_filter(user_id, i) ==
    items[i].seller_id = user_id /\ items[i].is_active /\ ~items[i].is_deleted

get_user_listings_status(user_id) == IF user_id \in Users THEN 200 ELSE 404

\* GET /users/<user_id>/listings
get_user_listings(user_id, page, per_page) ==
    LET rows == ByCreatedDesc(SelectItems(LAMBDA i : user_listings_filter(user_id, i)))
    IN  [ items    |-> Paginate(rows, clamp_page(page), clamp_per_page(per_page)),
          page     |-> clamp_page(page),
          per_page |-> clamp_per_page(per_page),
          total    |-> Len(rows),
          pages    |-> Pages(Len(rows), clamp_per_page(per_page)) ]

\* search.split(): the maximal runs of non-blank characters
Terms(s) ==
    { SubSeq(s, a, b) : <<a, b>> \in
        { ab \in (1 .. Len(s)) \X (1 .. Len(s)) :
            /\ ab[1] <= ab[2]
            /\ \A k \in ab[1] .. ab[2] : ~IsSpace(s[k])
            /\ (ab[1] = 1 \/ IsSpace(s[ab[1] - 1]))
            /\ (ab[2] = Len(s) \/ IsSpace(s[ab[2] + 1])) } }

\* The query of get_my_listings (lines 179-183).
my_listings_filter(u, search, i) ==
    /\ items[i].seller_id = u
    /\ ~items[i].is_deleted
    /\ \A term \in Terms(Strip(search)) : ILike(items[i].title, term)

\* GET /users/me/listings
get_my_listings(u, search, page, per_page) ==
    LET rows == ByCreatedDesc(SelectItems(LAMBDA i : my_listings_filter(u, search, i)))
    IN  [ items    |-> Paginate(rows, clamp_page(page), clamp_per_page(per_page)),
          page     |-> clamp_page(page),
          per_page |-> clamp_per_page(per_page),
          total    |-> Len(rows),
          pages    |-> Pages(Len(rows), clamp_per_page(per_page)) ]

\* The query of get_my_favorites (line 215): the user's association rows joined
\* to item, one result row per association row.
my_favorites_filter(u, i) == is_favorite(u, i) /\ ~items[i].is_deleted

RECURSIVE Repeat(_, _)
\* each id of s as many times as the user holds an association row for it
Repeat(u, s) ==
    IF s = <<>> THEN <<>>
    ELSE [k \in 1 .. CopiesIn(<<u, Head(s)>>, favorites) |-> Head(s)] \o Repeat(u, Tail(s))

\* GET /users/me/favorites
get_my_favorites(u, page, per_page) ==
    LET rows == Repeat(u, ByCreatedDesc(SelectItems(LAMBDA i : my_favorites_filter(u, i))))
    IN  [ items    |-> Paginate(rows, clamp_page(page), clamp_per_page(per_page)),
          page     |-> clamp_page(page),
          per_page |-> clamp_per_page(per_page),
          total    |-> Len(rows),
          pages    |-> Pages(Len(rows), clamp_per_page(per_page)) ]

---------------------------------------------------------------------------
(* The server-rendered pages of app/main.py *)

Electronics == <<"e", "l", "e", "c", "t", "r", "o", "n", "i", "c", "s">>
Clothing == <<"c", "l", "o", "t", "h", "i", "n", "g">>
Furniture == <<"f", "u", "r", "n", "i", "t", "u", "r", "e">>
HomeCategories == <<Electronics, Clothing, Furniture>>
HomeRecentLimit == 6

\* The base query of both pages: Item.query, every row of the table.
page_base(i) == TRUE

\* home(): category_items, the newest row of each category that has one
home_category_items ==
    LET newest(c) == ByCreatedDesc(SelectItems(
                        LAMBDA i : page_base(i) /\ items[i].category = c))
    IN  { Head(newest(HomeCategories[k])) :
            k \in {j \in 1 .. Len(HomeCategories) : newest(HomeCategories[j]) # <<>>} }

\* home(): recent_items
home_recent_items ==
    Limit(ByCreatedDesc(SelectItems(LAMBDA i : page_base(i))), HomeRecentLimit)

\* The rows buy_item selects; a parameter that is missing or empty filters nothing.
buy_item_filter(q, i) ==
    /\ page_base(i)
    /\ q.category # <<>> => items[i].category = q.category
    /\ q.seller_type # <<>> => items[i].seller_type = q.seller_type
    /\ q.condition # <<>> => items[i].condition = q.condition
    /\ q.search # <<>> => (ILike(items[i].title, q.search)
                            \/ ILike(items[i].description, q.search))

\* buy_item(): items
buy_item(q) == OrderItems(SelectItems(LAMBDA i : buy_item_filter(q, i)), q.sort_by)

---------------------------------------------------------------------------
(* Chat: message text, run-length encoded *)

\* n copies of the character c
Run(c, n) == [ch |-> c, n |-> n]

RECURSIVE ContentLen(_)
\* len(content)
ContentLen(t) == IF t = <<>> THEN 0 ELSE Head(t).n + ContentLen(Tail(t))

RECURSIVE DropLeadingBlanks(_)
DropLeadingBlanks(t) ==
    IF t # <<>> /\ IsSpace(Head(t).ch) THEN DropLeadingBlanks(Tail(t)) ELSE t

RECURSIVE DropTrailingBlanks(_)
DropTrailingBlanks(t) ==
    IF t # <<>> /\ IsSpace(t[Len(t)].ch)
    THEN DropTrailingBlanks(SubSeq(t, 1, Len(t) - 1))
    ELSE t

\* content.strip()
ContentStrip(t) == DropTrailingBlanks(DropLeadingBlanks(t))

\* A POST body: with a "content" key, or without one.
Body(t) == [has_content |-> TRUE, content |-> t]
NoContent == [has_content |-> FALSE, content |-> <<>>]

(* Chat: the queries *)

ContentMax == 5000
ConvDefaultPerPage == 50
ConvsDefaultPerPage == 20

RECURSIVE ChatsByTime(_)
\* ORDER BY timestamp ASC; rows that tie are returned in primary-key order
ChatsByTime(S) ==
    IF S = {} THEN <<>>
    ELSE LET m == CHOOSE x \in S : \A y \in S :
                        x.timestamp < y.timestamp \/ (x.timestamp = y.timestamp /\ x.id <= y.id)
         IN  <<m>> \o ChatsByTime(S \ {m})

\* messages exchanged only from the requester to the counterpart
conversation_filter_sent_only(u, o, m) == m.sender_id = u /\ m.receiver_id = o

\* The filter of get_conversation (lines 110-115) and of last_message (58-65).
conversation_filter(u, o, m) ==
    \/ (m.sender_id = u /\ m.receiver_id = o)
    \/ (m.sender_id = o /\ m.receiver_id = u)

Conversation(u, o) == {m \in chats : conversation_filter(u, o, m)}

\* a filter that takes the unread messages of both directions
Unread_both_ways(u, o) == {m \in chats : conversation_filter(u, o, m) /\ ~m.is_read}

\* Chat.query.filter_by(sender_id=o, receiver_id=u, is_read=False)
Unread(u, o) == {m \in chats : m.sender_id = o /\ m.receiver_id = u /\ ~m.is_read}

Ids(s) == [k \in 1 .. Len(s) |-> s[k].id]

\* GET /chat/<user_id>/messages: data.messages (as ids) and data.pagination
get_conversation_data(u, user_id, page, per_page) ==
    LET rows == ChatsByTime(Conversation(u, user_id))
    IN  [ messages |-> Ids(Paginate(rows, clamp_page(page), clamp_per_page(per_page))),
          page     |-> clamp_page(page),
          per_page |-> clamp_per_page(per_page),
          total    |-> Len(rows),
          pages    |-> Pages(Len(rows), clamp_per_page(per_page)) ]

\* the bulk update limited to the rows of the page that is returned
chats_after_fetch_page_only(u, user_id, page, per_page) ==
    LET shown == Range(get_conversation_data(u, user_id, page, per_page).messages)
    IN  { IF m \in Unread(u, user_id) /\ m.id \in shown THEN [m EXCEPT !.is_read = TRUE] ELSE m
            : m \in chats }

\* The chat table after get_conversation's bulk update (lines 126-132).
chats_after_fetch(u, user_id, page, per_page) ==
    {IF m \in Unread(u, user_id) THEN [m EXCEPT !.is_read = TRUE] ELSE m : m \in chats}

get_conversation_status(u, user_id) ==
    IF u = Anon THEN 401
    ELSE IF user_id \notin Users THEN 404
    ELSE 200

get_conversation(u, user_id, page, per_page) ==
    LET st == get_conversation_status(u, user_id)
    IN  /\ chats' = IF st = 200 THEN chats_after_fetch(u, user_id, page, per_page) ELSE chats
        /\ UNCHANGED <<items, favorites, recently_viewed, next_chat_id, clock>>
        /\ UNCHANGED <<accountVars, inflight>>

\* The users get_conversations joins to the requester's messages (lines 33-49),
\* in id order.
Counterparts(u) ==
    SelectSeq([k \in 1 .. MaxUsers |-> k],
              LAMBDA o : o # u /\ \E m \in chats :
                            /\ (m.sender_id = o \/ m.receiver_id = o)
                            /\ (m.sender_id = u \/ m.receiver_id = u))

\* .order_by(Chat.timestamp.desc()).first(), as the row's id; 0 for None
last_message(u, o) ==
    LET rows == ChatsByTime(Conversation(u, o))
    IN  IF rows = <<>> THEN 0 ELSE rows[Len(rows)].id

\* GET /chat/conversations: data.conversations
get_conversations(u, page, per_page) ==
    LET shown == Paginate(Counterparts(u), clamp_page(page), clamp_per_page(per_page))
    IN  [ k \in 1 .. Len(shown) |->
            [ user         |-> shown[k],
              last_message |-> last_message(u, shown[k]),
              unread_count |-> Cardinality(Unread(u, shown[k])) ] ]

\* GET /chat/conversations: data.pagination
get_conversations_pagination(page, per_page) ==
    [page |-> clamp_page(page), per_page |-> clamp_per_page(per_page)]

\* GET /chat/unread-count: total_unread and the GROUP BY sender_id rows
get_unread_count(u) ==
    [ total_unread |-> Cardinality({m \in chats : m.receiver_id = u /\ ~m.is_read}),
      by_sender    |-> { [sender_id |-> o, unread_count |-> Cardinality(Unread(u, o))] :
                            o \in {m.sender_id : m \in {x \in chats : x.receiver_id = u /\ ~x.is_read}} } ]

(* Chat: send_message *)

\* a limit that lets one character more through
content_too_long_by_two(content) == ContentLen(content) > ContentMax + 1

\* len(content) > 5000
content_too_long(content) == ContentLen(content) > ContentMax

\* a handler without the check for a message to oneself
to_self_never(u, user_id) == FALSE

\* user_id == current_user.id
to_self(u, user_id) == user_id = u

send_message_status(u, user_id, body) ==
    IF u = Anon THEN 401
    ELSE IF ~body.has_content THEN 400
    ELSE IF to_self(u, user_id) THEN 400
    ELSE IF user_id \notin Users THEN 404
    ELSE IF ContentStrip(body.content) = <<>> THEN 400
    ELSE IF content_too_long(ContentStrip(body.content)) THEN 400
    ELSE 201

\* The row Chat(...) builds; is_read takes the column default.
NewChat(u, user_id, body) ==
    [ id          |-> next_chat_id,
      sender_id   |-> u,
      receiver_id |-> user_id,
      content     |-> ContentStrip(body.content),
      timestamp   |-> clock,
      is_read     |-> FALSE ]

send_message(u, user_id, body, cap) ==
    LET st == send_message_status(u, user_id, body)
    IN  /\ st = 201 => next_chat_id <= cap
        /\ chats' = IF st = 201 THEN chats \cup {NewChat(u, user_id, body)} ELSE chats
        /\ next_chat_id' = IF st = 201 THEN next_chat_id + 1 ELSE next_chat_id
        /\ clock' = IF st = 201 THEN clock + 1 ELSE clock
        /\ UNCHANGED <<items, favorites, recently_viewed>>
        /\ UNCHANGED <<accountVars, inflight>>

---------------------------------------------------------------------------
(* Chat: get_conversation as two steps, the read of the page and the bulk
   update with its commit *)

\* get_conversation up to the query of lines 119-124: the page is read.
get_conversation_read(u, user_id, page, per_page) ==
    /\ get_conversation_status(u, user_id) = 200
    /\ inflight' = inflight (+) SetToBag({Pending("get_conversation", u, user_id,
                       get_conversation_data(u, user_id, page, per_page).messages)})
    /\ UNCHANGED <<items, favorites, recently_viewed, chats, next_chat_id, clock>>
    /\ UNCHANGED accountVars

\* Lines 126-132: the bulk update runs on the table as it is by then.
get_conversation_mark(r) ==
    /\ chats' = chats_after_fetch(r.user, r.arg, 1, 1)
    /\ inflight' = inflight (-) SetToBag({r})
    /\ UNCHANGED <<items, favorites, recently_viewed, next_chat_id, clock>>
    /\ UNCHANGED accountVars

---------------------------------------------------------------------------
(* Chat: mark_messages_as_read and delete_message *)

mark_messages_as_read_status(u, user_id) ==
    IF u = Anon THEN 401
    ELSE IF user_id \notin Users THEN 404
    ELSE 200

mark_messages_as_read(u, user_id) ==
    LET st == mark_messages_as_read_status(u, user_id)
    IN  /\ chats' = IF st = 200
                    THEN {IF m \in Unread(u, user_id) THEN [m EXCEPT !.is_read = TRUE] ELSE m
                            : m \in chats}
                    ELSE chats
        /\ UNCHANGED <<items, favorites, recently_viewed, next_chat_id, clock>>
        /\ UNCHANGED <<accountVars, inflight>>

\* Chat.query.get(message_id): the rows with that id, at most one
MessagesWithId(message_id) == {m \in chats : m.id = message_id}

\* a check that lets either participant delete
may_delete_participant(u, m) == m.sender_id = u \/ m.receiver_id = u

\* message.sender_id != current_user.id -> 403
may_delete(u, m) == m.sender_id = u

delete_message_status(u, message_id) ==
    IF u = Anon THEN 401
    ELSE IF MessagesWithId(message_id) = {} THEN 404
    ELSE IF \E m \in MessagesWithId(message_id) : ~may_delete(u, m) THEN 403
    ELSE 200

delete_message(u, message_id) ==
    LET st == delete_message_status(u, message_id)
    IN  /\ chats' = IF st = 200 THEN chats \ MessagesWithId(message_id) ELSE chats
        /\ UNCHANGED <<items, favorites, recently_viewed, next_chat_id, clock>>
        /\ UNCHANGED <<accountVars, inflight>>

---------------------------------------------------------------------------
(* Users: the profile update and the storage service *)

NameMax == 150

PROFILE_IMAGES_FOLDER ==
    <<"p", "r", "o", "f", "i", "l", "e", "_", "i", "m", "a", "g", "e", "s">>
ITEM_IMAGES_FOLDER == <<"i", "t", "e", "m", "_", "i", "m", "a", "g", "e", "s">>

\* s.startswith(prefix)
StartsWith(s, prefix) == Len(s) >= Len(prefix) /\ SubSeq(s, 1, Len(prefix)) = prefix

\* The object key f"{folder}/{name}"
Key(folder, name) == folder \o <<"/">> \o name

\* an existence check that answers False for every storage error
file_exists_false_on_error(filename, s3_up) ==
    IF s3_up /\ filename \in bucket THEN "true" ELSE "false"

\* The outcomes of file_exists: True, False, or the exception it re-raises
\* when head_object fails with anything but a 404.
file_exists(filename, s3_up) ==
    IF ~s3_up THEN "raise" ELSE IF filename \in bucket THEN "true" ELSE "false"

\* an existence check that takes every well-formed new key for uploaded
validate_profile_image_upload_unchecked(new_profile_image, old_profile_image, s3_up) ==
    IF ~StartsWith(new_profile_image, PROFILE_IMAGES_FOLDER \o <<"/">>) THEN "invalid"
    ELSE IF new_profile_image = old_profile_image THEN "invalid"
    ELSE "valid"

\* validate_profile_image_upload: "valid", "invalid" or "raise"
validate_profile_image_upload(new_profile_image, old_profile_image, s3_up) ==
    IF ~StartsWith(new_profile_image, PROFILE_IMAGES_FOLDER \o <<"/">>) THEN "invalid"
    ELSE IF new_profile_image = old_profile_image THEN "invalid"
    ELSE IF file_exists(new_profile_image, s3_up) = "raise" THEN "raise"
    ELSE IF file_exists(new_profile_image, s3_up) = "false" THEN "invalid"
    ELSE "valid"

\* PUT /users/me data: first_name, last_name, uploaded_image_filename
Profile(first_name, last_name, filename) ==
    [first_name |-> first_name, last_name |-> last_name, uploaded_image_filename |-> filename]

name_ok(name) == Strip(name) # <<>> /\ Len(Strip(name)) <= NameMax

\* s3_up: whether the bucket answers head_object; commit_ok: whether
\* db.session.commit() succeeds.
update_current_user_status(u, data, s3_up, commit_ok) ==
    LET filename == Strip(data.uploaded_image_filename)
        valid    == validate_profile_image_upload(filename, accounts[u].profile_image, s3_up)
    IN  IF u = Anon THEN 401
        ELSE IF ~name_ok(data.first_name) \/ ~name_ok(data.last_name) THEN 400
        ELSE IF filename # <<>> /\ valid = "invalid" THEN 400
        ELSE IF filename # <<>> /\ valid = "raise" THEN 500
        ELSE IF ~commit_ok THEN 500
        ELSE 200

\* The old image the handler goes on to delete: None unless a new image was
\* set and the user had one before.
old_profile_image(u, data) ==
    IF Strip(data.uploaded_image_filename) # <<>> THEN accounts[u].profile_image ELSE None

\* a handler that deletes the old image as soon as a new one is named
file_to_delete_at_once(u, data, st) ==
    IF st \in {200, 400, 500} THEN old_profile_image(u, data) ELSE None

\* The argument of the delete_file call, None when the handler returns
\* before it: old_profile_image is set only once validation has passed, and
\* the call follows the commit.
file_to_delete(u, data, st) == IF st = 200 THEN old_profile_image(u, data) ELSE None

\* delete_up: whether the bucket answers delete_object.
update_current_user(u, data, s3_up, commit_ok, delete_up) ==
    LET st       == update_current_user_status(u, data, s3_up, commit_ok)
        filename == Strip(data.uploaded_image_filename)
        old      == file_to_delete(u, data, st)
    IN  /\ accounts' =
              IF st = 200
              THEN [accounts EXCEPT ![u] =
                      [@ EXCEPT !.first_name = Strip(data.first_name),
                                !.last_name = Strip(data.last_name),
                                !.profile_image = IF filename # <<>> THEN filename ELSE @]]
              ELSE accounts
        /\ deleted_files' = IF old # None THEN deleted_files \cup {old} ELSE deleted_files
        /\ bucket' = IF old # None /\ delete_up THEN bucket \ {old} ELSE bucket
        /\ UNCHANGED <<items, favorites, recently_viewed, chats, next_chat_id, clock, inflight>>

\* The client's PUT of an object to a presigned URL.
put_object(key) ==
    /\ bucket' = bucket \cup {key}
    /\ UNCHANGED <<items, favorites, recently_viewed, chats, next_chat_id, clock, inflight,
                   accounts, deleted_files>>

---------------------------------------------------------------------------
(* Users: profile_image_put_url and generate_unique_filename *)

ImagePng == <<"i", "m", "a", "g", "e", "/", "p", "n", "g">>
ImageJpeg == <<"i", "m", "a", "g", "e", "/", "j", "p", "e", "g">>
ImageWebp == <<"i", "m", "a", "g", "e", "/", "w", "e", "b", "p">>
ImageGif == <<"i", "m", "a", "g", "e", "/", "g", "i", "f">>

\* ALLOWED_IMAGE_TYPES: MIME type -> extension
ALLOWED_IMAGE_TYPES ==
    (ImagePng :> <<"p", "n", "g">>) @@ (ImageJpeg :> <<"j", "p", "g">>) @@
    (ImageWebp :> <<"w", "e", "b", "p">>) @@ (ImageGif :> <<"g", "i", "f">>)

is_mimetype_allowed(mimetype) == mimetype \in DOMAIN ALLOWED_IMAGE_TYPES

mimetype_to_extension(mimetype) == ALLOWED_IMAGE_TYPES[mimetype]

\* The characters secure_filename keeps: [A-Za-z0-9_.-]
FilenameChars ==
    {"a", "b", "c", "d", "e", "f", "g", "h", "i", "j", "k", "l", "m", "n", "o", "p", "q",
     "r", "s", "t", "u", "v", "w", "x", "y", "z", "A", "B", "C", "D", "E", "F", "G", "H",
     "I", "J", "K", "L", "M", "N", "O", "P", "Q", "R", "S", "T", "U", "V", "W", "X", "Y",
     "Z", "0", "1", "2", "3", "4", "5", "6", "7", "8", "9", "_", ".", "-"}

\* "_".join(s.split()) for an s without leading or trailing whitespace
RECURSIVE JoinWords(_)
JoinWords(s) ==
    IF s = <<>> THEN <<>>
    ELSE IF ~IsSpace(Head(s)) THEN <<Head(s)>> \o JoinWords(Tail(s))
    ELSE IF Tail(s) # <<>> /\ IsSpace(Head(Tail(s))) THEN JoinWords(Tail(s))
    ELSE <<"_">> \o JoinWords(Tail(s))

\* s.strip("._")
RECURSIVE StripDots(_)
StripDots(s) ==
    IF s = <<>> THEN <<>>
    ELSE IF Head(s) \in {".", "_"} THEN StripDots(Tail(s))
    ELSE IF s[Len(s)] \in {".", "_"} THEN StripDots(SubSeq(s, 1, Len(s) - 1))
    ELSE s

\* werkzeug's secure_filename: path separators become blanks, words are
\* joined by "_", characters outside [A-Za-z0-9_.-] are dropped, and dots and
\* underscores are stripped from both ends.
secure_filename(filename) ==
    LET spaced == [i \in 1 .. Len(filename) |-> IF filename[i] = "/" THEN " " ELSE filename[i]]
        joined == JoinWords(Strip(spaced))
    IN  StripDots(SelectSeq(joined, LAMBDA c : c \in FilenameChars))

\* os.path.splitext(filename)[0]: the name up to its last dot, unless only
\* dots precede that dot
splitext_root(filename) ==
    LET dots == {i \in 1 .. Len(filename) : filename[i] = "."}
        last_dot == IF dots = {} THEN 0 ELSE CHOOSE i \in dots : \A j \in dots : j <= i
    IN  IF last_dot = 0 \/ \A j \in 1 .. last_dot - 1 : filename[j] = "."
        THEN filename
        ELSE SubSeq(filename, 1, last_dot - 1)

\* datetime.now(timezone.utc).strftime("%Y%m%d_%H%M%S"): one text per second
strftime(now) == <<ToString(now)>>

\* generate_unique_filename; u, the requester, is not an argument of the
\* code and is not used.
generate_unique_filename(original_filename, folder, content_type, now, u) ==
    LET filename == secure_filename(original_filename)
        named == IF content_type # <<>> /\ is_mimetype_allowed(content_type)
                 THEN splitext_root(filename) \o <<".">> \o mimetype_to_extension(content_type)
                 ELSE filename
    IN  Key(folder, strftime(now) \o <<"_">> \o named)

\* POST /users/me/profile-image-url data: filename, contentType
Upload(filename, contentType) == [filename |-> filename, contentType |-> contentType]

\* The answer of profile_image_put_url: its status code and, on success, the
\* newFilename of its data; url_ok: whether generate_put_url returns a URL.
profile_image_put_url(u, data, now, url_ok) ==
    LET filename == Strip(data.filename)
        contentType == Strip(data.contentType)
    IN  IF u = Anon THEN [status |-> 401, newFilename |-> None]
        ELSE IF filename = <<>> \/ contentType = <<>> THEN [status |-> 400, newFilename |-> None]
        ELSE IF ~is_mimetype_allowed(contentType) THEN [status |-> 400, newFilename |-> None]
        ELSE IF ~url_ok THEN [status |-> 500, newFilename |-> None]
        ELSE [status |-> 200,
              newFilename |-> generate_unique_filename(filename, PROFILE_IMAGES_FOLDER,
                                                       contentType, now, u)]

---------------------------------------------------------------------------
(* Auth: signup and forgot-password *)

\* The response envelope: status code, success flag, message, and the fields
\* of the errors map (none when the handler passes no errors argument).
success_response(message) ==
    [status |-> 200, success |-> TRUE, message |-> message, errors |-> {}]
error_response(message, status_code, errors) ==
    [status |-> status_code, success |-> FALSE, message |-> message, errors |-> errors]

\* data.get("email", "").strip().lower()
NormalEmail(email) == Lower(Strip(email))

Registered(email) == \E k \in DOMAIN accounts : accounts[k].email = email

Token == <<"<token>">>

\* generate_password_reset(email): whether an account has the email; the
\* account is issued a reset token.
generate_password_reset(email) == Registered(email)
accounts_after_reset(email) ==
    [k \in DOMAIN accounts |->
        IF accounts[k].email = email THEN [accounts[k] EXCEPT !.reset_token = Token]
        ELSE accounts[k]]

\* an answer that tells the caller when no account was found
forgot_password_response_revealing(success) ==
    IF success THEN success_response("Password reset instructions sent")
    ELSE error_response("No account found", 404, {})

\* The answer of api_forgot_password, given what generate_password_reset
\* returned (lines 78-85).
forgot_password_response(success) == success_response("Password reset instructions sent")

api_forgot_password_response(email) ==
    forgot_password_response(generate_password_reset(NormalEmail(email)))

api_forgot_password(email) ==
    /\ accounts' = accounts_after_reset(NormalEmail(email))
    /\ UNCHANGED <<items, favorites, recently_viewed, chats, next_chat_id, clock, inflight,
                   bucket, deleted_files>>

\* POST /auth/signup data
Signup(first_name, last_name, email, password, confirm_password) ==
    [ first_name |-> first_name, last_name |-> last_name, email |-> email,
      password |-> password, confirm_password |-> confirm_password ]

\* create_user(...): the error it returns, "" for none.  Names are required,
\* the email must be new, and the two passwords must match.
create_user_error(first_name, last_name, email, password, confirm_password) ==
    IF first_name = <<>> \/ last_name = <<>> THEN "First and last name are required"
    ELSE IF email = <<>> \/ Registered(email) THEN "Email is not available"
    ELSE IF password # confirm_password THEN "Passwords do not match"
    ELSE ""

NewAccount(first_name, last_name, email, password) ==
    [ email         |-> email,
      first_name    |-> first_name,
      last_name     |-> last_name,
      password      |-> password,
      reset_token   |-> None,
      profile_image |-> None ]

signup_error(data) ==
    create_user_error(Strip(data.first_name), Strip(data.last_name),
                      NormalEmail(data.email), data.password, data.confirm_password)

\* The answer of api_signup (lines 40-47): the error goes into the message.
api_signup_response(data) ==
    IF signup_error(data) # "" THEN error_response(signup_error(data), 400, {})
    ELSE success_response("Account created. Please verify your email.")

api_signup(data, cap) ==
    LET ok == signup_error(data) = ""
    IN  /\ ok => Len(accounts) < cap
        /\ accounts' =
              IF ok
              THEN Append(accounts, NewAccount(Strip(data.first_name), Strip(data.last_name),
                                                NormalEmail(data.email), data.password))
              ELSE accounts
        /\ UNCHANGED <<items, favorites, recently_viewed, chats, next_chat_id, clock, inflight,
                       bucket, deleted_files>>

---------------------------------------------------------------------------
(* The requests the specifications submit *)

Actors == Users \cup {Anon}

NoAnswer == Answer("none", Anon, 0, 0)

\* The accounts that exist from the start: distinct emails, no profile image.
InitialAccount(u) ==
    [ email         |-> <<"u">> \o [k \in 1 .. u |-> "x"],
      first_name    |-> <<"a">>,
      last_name     |-> <<"c">>,
      password      |-> <<"p">>,
      reset_token   |-> None,
      profile_image |-> None ]

Init ==
    /\ items = <<>>
    /\ favorites = EmptyBag
    /\ recently_viewed = {}
    /\ chats = {}
    /\ next_chat_id = 1
    /\ clock = 1
    /\ accounts = [u \in Users |-> InitialAccount(u)]
    /\ bucket = {}
    /\ deleted_files = {}
    /\ inflight = EmptyBag
    /\ last = NoAnswer

\* The fields a request leaves out.
NoFields ==
    [ title |-> Absent, description |-> Absent, category |-> Absent, size |-> Absent,
      seller_type |-> Absent, condition |-> Absent, price |-> PAbsent,
      is_active |-> BAbsent, image |-> NoFile ]

\* A POST /items body with the optional fields empty.
Listing(title, category, price) ==
    [ title |-> title, description |-> <<>>, category |-> category, size |-> <<>>,
      seller_type |-> <<>>, condition |-> <<>>, price |-> price, image |-> NoFile ]

\* POST /items bodies: "a" without a category, "Ab" (blank-padded) in electronics,
\* one without a title and one with a negative price.
CreateData ==
    { Listing(<<"a">>, <<>>, PStr(<<"5">>)),
      Listing(<<" ", "A", "b">>, Electronics, PStr(<<"$", "7">>)),
      Listing(<<" ">>, <<>>, PStr(<<"5">>)),
      Listing(<<"a">>, <<>>, PStr(<<"-", "1">>)) }

\* PUT /items/<id> bodies: a new title, category and price; a blank title;
\* deactivation; reactivation; a price that does not parse; a new title with a
\* negative price.
UpdateData ==
    { [NoFields EXCEPT !.title = <<"A", "b", " ">>, !.category = Electronics,
                       !.price = PStr(<<"$", "7">>)],
      [NoFields EXCEPT !.title = <<" ">>],
      [NoFields EXCEPT !.is_active = BBool(FALSE)],
      [NoFields EXCEPT !.is_active = BBool(TRUE)],
      [NoFields EXCEPT !.price = PStr(<<"x">>)],
      [NoFields EXCEPT !.title = <<"A", "b">>, !.price = PStr(<<"-", "1">>)] }

\* an id of every row, and one past the last
RequestIds == 1 .. (Len(items) + 1)

ListQueries ==
    [ search      : {<<>>, <<"a">>},
      category    : {<<>>, Electronics},
      seller_type : {<<>>},
      condition   : {<<>>},
      sort_by     : {"newest", "oldest", "price_low", "price_high"},
      page        : {1, 2},
      per_page    : {1, 20} ]

AutoQueries == {<<>>, <<"a">>, <<"b">>}
AutoLimits == {0, 1, 8}
PageArgs == {0, 1, 2}
PerPageArgs == {0, 1, 20, 101}
MySearches == {<<>>, <<"a", " ", "b">>}

CreateItem ==
    \E u \in Actors, d \in CreateData :
        create_item(u, d, MaxItems) /\ last' = Brief("create_item", create_item_status(u, d))
UpdateItem ==
    \E u \in Actors, id \in RequestIds, d \in UpdateData :
        update_item(u, id, d) /\ last' = Brief("update_item", update_item_status(u, id, d))
DeleteItem ==
    \E u \in Actors, id \in RequestIds :
        delete_item(u, id) /\ last' = Brief("delete_item", delete_item_status(u, id))

\* The read-only endpoints change no table; the answer is the operator's value.
Unchanged ==
    UNCHANGED <<items, favorites, recently_viewed, chats, next_chat_id, clock, accountVars, inflight>>

ListItems == Unchanged /\ last' = Brief("list_items", 200)
Autocomplete == Unchanged /\ last' = Brief("autocomplete", 200)
GetUserListings ==
    \E user_id \in Users \cup {NoSuchUser} :
        Unchanged /\ last' = Brief("get_user_listings", get_user_listings_status(user_id))
\* @require_api_auth answers 401 without a session
GetMyListings ==
    \E u \in Actors :
        Unchanged /\ last' = Brief("get_my_listings", IF u = Anon THEN 401 ELSE 200)
\* @login_required sends a browser without a session to the login page
Home ==
    \E u \in Actors : Unchanged /\ last' = Brief("home", IF u = Anon THEN 302 ELSE 200)
BuyItem ==
    \E u \in Actors : Unchanged /\ last' = Brief("buy_item", IF u = Anon THEN 302 ELSE 200)

Next ==
    \/ CreateItem
    \/ UpdateItem
    \/ DeleteItem
    \/ ListItems
    \/ Autocomplete
    \/ GetUserListings
    \/ GetMyListings
    \/ Home
    \/ BuyItem

\* The catalogue: listings are created, edited, soft-deleted and listed; `last`
\* records the handler and the status.
Spec == Init /\ [][Next]_vars

---------------------------------------------------------------------------
(* Ownership: the mutating item requests, each recorded with its requester *)

CreateItemO ==
    \E u \in Actors, d \in CreateData :
        /\ create_item(u, d, MaxOwnedItems)
        /\ last' = Answer("create_item", u, 0, create_item_status(u, d))
UpdateItemO ==
    \E u \in Actors, id \in RequestIds, d \in UpdateData :
        update_item(u, id, d) /\ last' = Answer("update_item", u, id, update_item_status(u, id, d))
DeleteItemO ==
    \E u \in Actors, id \in RequestIds :
        delete_item(u, id) /\ last' = Answer("delete_item", u, id, delete_item_status(u, id))

OwnerNext == CreateItemO \/ UpdateItemO \/ DeleteItemO

OwnerSpec == Init /\ [][OwnerNext]_vars

---------------------------------------------------------------------------
(* Favorites: listings are created and soft-deleted, favorited and unfavorited *)

PlainListing == Listing(<<"a">>, <<>>, PStr(<<"5">>))

CreateItemF ==
    \E u \in Actors :
        /\ create_item(u, PlainListing, MaxFavItems)
        /\ last' = Answer("create_item", u, 0, create_item_status(u, PlainListing))
DeleteItemF ==
    \E u \in Actors, id \in RequestIds :
        delete_item(u, id) /\ last' = Answer("delete_item", u, id, delete_item_status(u, id))
AddFavorite ==
    \E u \in Actors, id \in RequestIds :
        add_favorite(u, id) /\ last' = Answer("add_favorite", u, id, add_favorite_status(u, id))
RemoveFavorite ==
    \E u \in Actors, id \in RequestIds :
        /\ remove_favorite(u, id)
        /\ last' = Answer("remove_favorite", u, id, remove_favorite_status(u, id))
GetUserListingsF ==
    \E user_id \in Users \cup {NoSuchUser} :
        /\ Unchanged
        /\ last' = Answer("get_user_listings", Anon, user_id, get_user_listings_status(user_id))
GetMyListingsF ==
    \E u \in Actors :
        Unchanged /\ last' = Answer("get_my_listings", u, 0, IF u = Anon THEN 401 ELSE 200)
GetMyFavorites ==
    \E u \in Actors :
        Unchanged /\ last' = Answer("get_my_favorites", u, 0, IF u = Anon THEN 401 ELSE 200)

FavNext ==
    \/ CreateItemF
    \/ DeleteItemF
    \/ AddFavorite
    \/ RemoveFavorite
    \/ GetUserListingsF
    \/ GetMyListingsF
    \/ GetMyFavorites

FavSpec == Init /\ [][FavNext]_vars

---------------------------------------------------------------------------
(* Views: listings are created, soft-deleted and fetched by id *)

CreateItemV ==
    \E u \in Actors :
        /\ create_item(u, PlainListing, MaxViewItems)
        /\ last' = Answer("create_item", u, 0, create_item_status(u, PlainListing))
DeleteItemV ==
    \E u \in Actors, id \in RequestIds :
        delete_item(u, id) /\ last' = Answer("delete_item", u, id, delete_item_status(u, id))
GetItem ==
    \E u \in Actors, id \in RequestIds :
        get_item(u, id, MaxViewClock) /\ last' = Answer("get_item", u, id, get_item_status(id))

ViewNext == CreateItemV \/ DeleteItemV \/ GetItem

ViewSpec == Init /\ [][ViewNext]_vars

---------------------------------------------------------------------------
(* Chat: messages are sent, conversations fetched, unread counts read *)

ChatTargets == Users \cup {NoSuchUser}

Hello == <<Run("h", 1), Run("i", 1)>>
Blanks == <<Run(" ", 2)>>
ChatBodies == {Body(Hello), Body(Blanks), Body(<<>>)}

\* page and per_page of the conversation fetches: the defaults, and one
\* message per page, second page
FetchArgs == {<<1, ConvDefaultPerPage>>, <<2, 1>>}

SendMessage ==
    \E u \in Actors, o \in ChatTargets, b \in ChatBodies :
        /\ send_message(u, o, b, MaxMsgs)
        /\ last' = Answer("send_message", u, o, send_message_status(u, o, b))
GetConversation ==
    \E u \in Actors, o \in ChatTargets, a \in FetchArgs :
        /\ get_conversation(u, o, a[1], a[2])
        /\ last' = Answer("get_conversation", u, o, get_conversation_status(u, o))
GetConversations ==
    \E u \in Actors :
        Unchanged /\ last' = Answer("get_conversations", u, 0, IF u = Anon THEN 401 ELSE 200)
GetUnreadCount ==
    \E u \in Actors :
        Unchanged /\ last' = Answer("get_unread_count", u, 0, IF u = Anon THEN 401 ELSE 200)

ChatNext == SendMessage \/ GetConversation \/ GetConversations \/ GetUnreadCount

ChatSpec == Init /\ [][ChatNext]_vars

(* Message length: bodies at and around the limit are sent *)

LimitBodies ==
    { Body(<<Run("a", ContentMax)>>),
      Body(<<Run("a", ContentMax + 1)>>),
      Body(<<Run("a", ContentMax), Run(" ", 1)>>),
      NoContent }

SendMessageL ==
    \E u \in Actors, o \in ChatTargets, b \in LimitBodies :
        /\ send_message(u, o, b, MaxLimitMsgs)
        /\ last' = Sized("send_message", u, o, send_message_status(u, o, b),
                         ContentLen(b.content))

LimitSpec == Init /\ [][SendMessageL]_vars

---------------------------------------------------------------------------
(* Profiles: objects are uploaded, profiles updated *)

ImageA == Key(PROFILE_IMAGES_FOLDER, <<"a">>)
ImageB == Key(PROFILE_IMAGES_FOLDER, <<"b">>)

ProfileBodies ==
    { Profile(<<"b">>, <<"c">>, <<>>),
      Profile(<<"a">>, <<"c">>, ImageA),
      Profile(<<"b">>, <<"c">>, ImageB \o <<" ">>),
      Profile(<<"a">>, <<" ">>, ImageA),
      Profile(<<"a">>, <<"c">>, Key(ITEM_IMAGES_FOLDER, <<"a">>)) }

PutObject ==
    \E key \in {ImageA, ImageB} :
        put_object(key) /\ last' = Answer("put_object", Anon, key, 200)
\* What fails while a request is served: nothing, the bucket's head_object,
\* the database commit, or the bucket's delete_object.
Failures == {"none", "head_object", "commit", "delete_object"}

UpdateCurrentUser ==
    \E u \in (1 .. MaxProfileUsers) \cup {Anon}, data \in ProfileBodies, failure \in Failures :
      LET s3_up == failure # "head_object"
          commit_ok == failure # "commit"
          delete_up == failure # "delete_object"
      IN
        /\ update_current_user(u, data, s3_up, commit_ok, delete_up)
        /\ last' = Answer("update_current_user", u,
                          [data |-> data, s3_up |-> s3_up, commit_ok |-> commit_ok,
                           delete_up |-> delete_up],
                          update_current_user_status(u, data, s3_up, commit_ok))

ProfileNext == PutObject \/ UpdateCurrentUser

ProfileSpec == Init /\ [][ProfileNext]_vars

---------------------------------------------------------------------------
(* Reads: conversations are fetched while messages are sent *)

\* The user whose reads are followed.
Readers == {2}

SendMessageC ==
    \E u \in Users, o \in Readers :
        /\ send_message(u, o, Body(Hello), MaxReadMsgs)
        /\ last' = Answer("send_message", u, o, send_message_status(u, o, Body(Hello)))
GetConversationRead ==
    \E u \in Readers, o \in Users, a \in FetchArgs :
        WorkerFree /\ get_conversation_read(u, o, a[1], a[2]) /\ UNCHANGED last
GetConversationMark ==
    \E r \in BagToSet(inflight) :
        /\ r.op = "get_conversation"
        /\ get_conversation_mark(r)
        /\ last' = WithData("get_conversation", r.user, r.arg, 200, r.seen)

ReadNext == SendMessageC \/ GetConversationRead \/ GetConversationMark

ReadSpec == Init /\ [][ReadNext]_vars

---------------------------------------------------------------------------
(* Shared keys: every user updates their profile image, the bucket answering *)

ImageBodies == {Profile(<<"a">>, <<"c">>, ImageA), Profile(<<"a">>, <<"c">>, ImageB)}

PutObjectS ==
    \E key \in {ImageA, ImageB} :
        put_object(key) /\ last' = Answer("put_object", Anon, key, 200)
UpdateCurrentUserS ==
    \E u \in Users, data \in ImageBodies :
        /\ update_current_user(u, data, TRUE, TRUE, TRUE)
        /\ last' = Answer("update_current_user", u,
                          [data |-> data, s3_up |-> TRUE, commit_ok |-> TRUE, delete_up |-> TRUE],
                          update_current_user_status(u, data, TRUE, TRUE))

ShareNext == PutObjectS \/ UpdateCurrentUserS

ShareSpec == Init /\ [][ShareNext]_vars

---------------------------------------------------------------------------
(* Upload URLs: users ask for upload URLs while the seconds pass *)

UploadBodies ==
    { Upload(<<"a", ".", "p", "n", "g">>, ImagePng),
      Upload(<<"a", ".", "j", "p", "g">>, ImagePng),
      Upload(<<"/", "a", " ", "b">>, ImageJpeg \o <<" ">>),
      Upload(<<" ">>, ImagePng),
      Upload(<<"a">>, <<"t", "e", "x", "t">>) }

ProfileImagePutUrl ==
    \E u \in Actors, data \in UploadBodies, url_ok \in BOOLEAN :
        /\ last' = WithData("profile_image_put_url", u, data,
                            profile_image_put_url(u, data, clock, url_ok).status,
                            profile_image_put_url(u, data, clock, url_ok).newFilename)
        /\ UNCHANGED <<items, favorites, recently_viewed, chats, next_chat_id, clock>>
        /\ UNCHANGED <<accountVars, inflight>>

\* A second passes.
Tick ==
    /\ clock < MaxSeconds
    /\ clock' = clock + 1
    /\ UNCHANGED <<items, favorites, recently_viewed, chats, next_chat_id, last>>
    /\ UNCHANGED <<accountVars, inflight>>

\* The client uploads to the URL it was just issued.
PutIssued ==
    /\ last.op = "profile_image_put_url" /\ last.status = 200
    /\ put_object(last.data)
    /\ UNCHANGED last

UrlNext == ProfileImagePutUrl \/ Tick \/ PutIssued

UrlSpec == Init /\ [][UrlNext]_vars

---------------------------------------------------------------------------
(* Races: favorites are added and items fetched by requests that interleave *)

\* The user whose requests race, and the item ids they name.
RaceUsers == {1}
RaceIds == 1 .. MaxRaceItems

CreateItemR ==
    \E u \in RaceUsers :
        /\ create_item(u, PlainListing, MaxRaceItems)
        /\ last' = Answer("create_item", u, 0, create_item_status(u, PlainListing))
AddFavoriteCheck ==
    \E u \in RaceUsers, id \in RaceIds :
        WorkerFree /\ add_favorite_check(u, id) /\ UNCHANGED last
AddFavoriteCommit ==
    \E r \in BagToSet(inflight) :
        /\ r.op = "add_favorite"
        /\ add_favorite_commit(r)
        /\ last' = Answer("add_favorite", r.user, r.arg, 200)
GetItemCheck ==
    \E u \in RaceUsers, id \in RaceIds :
        WorkerFree /\ get_item_check(u, id) /\ UNCHANGED last
GetItemCommit ==
    \E r \in BagToSet(inflight) :
        /\ r.op = "get_item"
        /\ get_item_commit(r, MaxRaceClock)
        /\ last' = Answer("get_item", r.user, r.arg, 200)

RaceNext ==
    CreateItemR \/ AddFavoriteCheck \/ AddFavoriteCommit \/ GetItemCheck \/ GetItemCommit

RaceSpec == Init /\ [][RaceNext]_vars

---------------------------------------------------------------------------
(* Accounts: users sign up and ask for password resets *)

SignupBodies ==
    { Signup(<<"a">>, <<"c">>, <<"N">>, <<"p">>, <<"p">>),
      Signup(<<"a">>, <<"c">>, <<"m">>, <<"p">>, <<"p">>),
      Signup(<<"a">>, <<"c">>, <<"n">>, <<"p">>, <<"q">>),
      Signup(<<"a">>, <<"c">>, <<" ", "U", "x">>, <<"p">>, <<"p">>),
      Signup(<<" ">>, <<"c">>, <<"n">>, <<"p">>, <<"p">>) }

ForgotEmails == {<<"u", "x">>, <<"U", "X", " ">>, <<"n">>, <<"z">>, <<" ">>}

ApiSignup ==
    \E data \in SignupBodies :
        /\ api_signup(data, MaxUsers + MaxSignups)
        /\ last' = Replied("api_signup", Anon, data, api_signup_response(data))
ApiForgotPassword ==
    \E email \in ForgotEmails :
        /\ api_forgot_password(email)
        /\ last' = Replied("api_forgot_password", Anon, email,
                           api_forgot_password_response(email))

AuthNext == ApiSignup \/ ApiForgotPassword

AuthSpec == Init /\ [][AuthNext]_vars

---------------------------------------------------------------------------
(* Fields: listings are created and updated with values at the edge of validity *)

\* n times the letter "a"
Letters(n) == [k \in 1 .. n |-> "a"]

NotANumber == <<"N", "a", "N">>

FieldCreateData ==
    { Listing(<<"a">>, <<>>, PStr(<<"5">>)),
      Listing(Letters(TitleMax + 1), <<>>, PStr(<<"5">>)),
      Listing(<<"a">>, <<>>, PStr(<<"-", "1">>)),
      Listing(<<"a">>, <<>>, PStr(<<"$", "x">>)),
      Listing(<<"a">>, <<>>, PNum(5)),
      Listing(<<"a">>, <<>>, PStr(NotANumber)) }

FieldUpdateData ==
    { [NoFields EXCEPT !.title = <<"b">>, !.price = PStr(<<"$", "7">>)],
      [NoFields EXCEPT !.title = <<"b">>, !.price = PStr(<<"-", "1">>)],
      [NoFields EXCEPT !.title = <<"b">>, !.price = PStr(<<"x">>)],
      [NoFields EXCEPT !.title = <<"b">>, !.image = File(<<"x", ".", "e", "x", "e">>)],
      [NoFields EXCEPT !.title = <<" ">>],
      [NoFields EXCEPT !.title = Letters(TitleMax + 1)],
      [NoFields EXCEPT !.price = PStr(NotANumber)] }

\* one signed-in user, who owns every listing, and the anonymous requester
FieldActors == {1, Anon}

CreateItemD ==
    \E u \in FieldActors, d \in FieldCreateData :
        /\ create_item(u, d, MaxFieldItems)
        /\ last' = WithData("create_item", u, 0, create_item_status(u, d), d)
UpdateItemD ==
    \E u \in FieldActors, id \in RequestIds, d \in FieldUpdateData :
        /\ update_item(u, id, d)
        /\ last' = WithData("update_item", u, id, update_item_status(u, id, d), d)

FieldNext == CreateItemD \/ UpdateItemD

FieldSpec == Init /\ [][FieldNext]_vars

---------------------------------------------------------------------------
(* Messages: messages are sent, read, marked read and deleted *)

\* an id of every message sent so far, and one never issued
MessageIds == 1 .. next_chat_id

SendMessageM ==
    \E u \in Actors, o \in ChatTargets :
        /\ send_message(u, o, Body(Hello), MaxSentMsgs)
        /\ last' = Answer("send_message", u, o, send_message_status(u, o, Body(Hello)))
GetConversationM ==
    \E u \in Actors, o \in ChatTargets :
        /\ get_conversation(u, o, 1, ConvDefaultPerPage)
        /\ last' = Answer("get_conversation", u, o, get_conversation_status(u, o))
MarkMessagesAsRead ==
    \E u \in Actors, o \in ChatTargets :
        /\ mark_messages_as_read(u, o)
        /\ last' = Answer("mark_messages_as_read", u, o, mark_messages_as_read_status(u, o))
DeleteMessage ==
    \E u \in Actors, id \in MessageIds :
        /\ delete_message(u, id)
        /\ last' = Answer("delete_message", u, id, delete_message_status(u, id))

MessageNext == SendMessageM \/ GetConversationM \/ MarkMessagesAsRead \/ DeleteMessage

MessageSpec == Init /\ [][MessageNext]_vars

---------------------------------------------------------------------------
(* Properties of the item endpoints *)

Listed(r) == Range(r.items)

Visible(i) == items[i].is_active /\ ~items[i].is_deleted

\* C1: every item that list_items (GET /items) or autocomplete returns, for any
\* query, is active and not soft-deleted.
C1_ListedItemsAreVisible ==
    /\ \A q \in ListQueries : \A i \in Listed(list_items(q)) : Visible(i)
    /\ \A query \in AutoQueries, limit \in AutoLimits :
            \A i \in Range(autocomplete(query, limit)) : Visible(i)

\* C1 witness: one item was deactivated while another is listed and suggested.
C1_Witness ==
    \E i, j \in ItemIds :
        /\ ~items[i].is_active
        /\ \E q \in ListQueries : j \in Listed(list_items(q))
        /\ j \in Range(autocomplete(<<"a">>, AutoDefaultLimit))

\* C2: no inactive or soft-deleted item is returned by get_user_listings,
\* get_my_listings or get_my_favorites.
C2_UserListingsAreVisible ==
    \A u \in Users, page \in PageArgs, per_page \in PerPageArgs :
        /\ \A i \in Listed(get_user_listings(u, page, per_page)) : Visible(i)
        /\ \A s \in MySearches : \A i \in Listed(get_my_listings(u, s, page, per_page)) : Visible(i)
        /\ \A i \in Listed(get_my_favorites(u, page, per_page)) : Visible(i)

\* The seller's requests find the row of item i: none answers 404.
SellerFinds(i) ==
    /\ delete_item_status(items[i].seller_id, i) # 404
    /\ \A d \in UpdateData : update_item_status(items[i].seller_id, i, d) # 404

\* C3 as stated: delete_item deactivates the item and keeps its row, and the
\* seller's get_item of an item the seller soft-deleted does not answer 404.
C3_SellerFetchesDeletedItem ==
    /\ (last.op = "delete_item" /\ last.status = 200)
            => (last.arg \in ItemIds /\ ~items[last.arg].is_active)
    /\ ( /\ last.op = "get_item"
         /\ last.arg \in ItemIds
         /\ ~items[last.arg].is_active
         /\ last.user = items[last.arg].seller_id ) => last.status # 404

\* C3 amended: delete_item deactivates the item and keeps its row unchanged
\* otherwise; afterwards get_item answers 404 for it to every requester, the
\* seller included, while the seller's update_item and delete_item still find
\* the row by id.
C3_SoftDeleteKeepsRowButHidesIt ==
    /\ [][ (last'.op = "delete_item" /\ last'.status = 200)
                => ( /\ last'.arg \in ItemIds
                     /\ items' = [items EXCEPT ![last'.arg].is_active = FALSE] ) ]_vars
    /\ [](\A i \in ItemIds : ~items[i].is_active => (get_item_status(i) = 404 /\ SellerFinds(i)))
    /\ []((last.op = "get_item" /\ last.arg \in ItemIds /\ ~items[last.arg].is_active)
                => last.status = 404)

\* C3 witness: the seller has fetched the item the seller soft-deleted.
C3_Witness ==
    /\ last.op = "get_item"
    /\ last.arg \in ItemIds
    /\ ~items[last.arg].is_active
    /\ last.user = items[last.arg].seller_id
    /\ last.status = 404

BuyQueries ==
    [ category    : {<<>>, Electronics},
      seller_type : {<<>>},
      condition   : {<<>>},
      search      : {<<>>, <<"a">>},
      sort_by     : {"newest", "oldest", "price_low", "price_high", "x"} ]

\* C4: the home and buy_item pages, whatever the parameters, show no item that
\* is inactive or soft-deleted.
C4_PagesShowVisibleItems ==
    /\ \A i \in home_category_items \cup Range(home_recent_items) : Visible(i)
    /\ \A q \in BuyQueries : \A i \in Range(buy_item(q)) : Visible(i)

FavCount(u, i) == CopiesIn(<<u, i>>, favorites)

\* C5: a (user, item) pair has at most one favorite association; add_favorite on
\* an active item answers 200 and leaves exactly one, also when the item was
\* favorited already; remove_favorite on an item that is not favorited answers
\* 200 and changes nothing.
C5_FavoritesAreIdempotent ==
    /\ [](\A u \in Users, i \in ItemIds : FavCount(u, i) <= 1)
    /\ []((last.op = "add_favorite" /\ last.user \in Users /\ last.arg \in ItemIds
                /\ items[last.arg].is_active)
            => (last.status = 200 /\ FavCount(last.user, last.arg) = 1))
    /\ [][ (last'.op = "add_favorite" /\ last'.user \in Users /\ last'.arg \in ItemIds
                /\ items[last'.arg].is_active /\ is_favorite(last'.user, last'.arg))
            => (last'.status = 200 /\ favorites' = favorites) ]_vars
    /\ [][ (last'.op = "remove_favorite" /\ last'.user \in Users /\ last'.arg \in ItemIds
                /\ ~is_favorite(last'.user, last'.arg))
            => (last'.status = 200 /\ favorites' = favorites) ]_vars

\* C5 witness: an unfavorite request was answered 200 while another user still
\* holds the item as a favorite.
C5_Witness ==
    /\ last.op = "remove_favorite"
    /\ last.status = 200
    /\ ~is_favorite(last.user, last.arg)
    /\ \E u \in Users : FavCount(u, last.arg) = 1

ViewsOf(u, i) == Cardinality(ExistingViews(u, i))

\* C6: there is at most one RecentlyViewed row per (user_id, item_id); get_item
\* of an active item by a signed-in user inserts one row at the first view and
\* afterwards only sets that row's viewed_at; a request answered 404 or made
\* without a session writes nothing.
C6_OneViewRowPerUserAndItem ==
    /\ [](\A u \in Users, i \in ItemIds : ViewsOf(u, i) <= 1)
    /\ [][ last'.op = "get_item" =>
            IF last'.status = 200 /\ last'.user # Anon
            THEN LET u == last'.user
                     i == last'.arg
                 IN  /\ {r \in recently_viewed' : r.user_id # u \/ r.item_id # i}
                            = {r \in recently_viewed : r.user_id # u \/ r.item_id # i}
                     /\ \A r \in recently_viewed' :
                            (r.user_id = u /\ r.item_id = i) => r.viewed_at = clock
                     /\ Cardinality(recently_viewed') =
                            IF ViewsOf(u, i) = 0 THEN Cardinality(recently_viewed) + 1
                            ELSE Cardinality(recently_viewed)
            ELSE recently_viewed' = recently_viewed ]_vars
    /\ []((last.op = "get_item" /\ last.status = 200) =>
                (last.arg \in ItemIds /\ items[last.arg].is_active))

\* C6 witness: after three ticks of the clock (the item's creation and two
\* views) the table holds a single row, stamped by the second view.
C6_Witness ==
    /\ last.op = "get_item"
    /\ last.status = 200
    /\ Cardinality(recently_viewed) = 1
    /\ \E r \in recently_viewed : r.user_id = last.user /\ r.viewed_at = 3

\* C10: update_item and delete_item by a signed-in user who is not the item's
\* seller are answered 403 and leave the table as it was; a row changes only
\* through an update_item or delete_item of its seller.
C10_OnlySellerChangesItem ==
    /\ [][ ( /\ last'.op \in {"update_item", "delete_item"}
              /\ last'.user \in Users
              /\ last'.arg \in ItemIds
              /\ items[last'.arg].seller_id # last'.user )
            => (last'.status = 403 /\ items' = items) ]_vars
    /\ [][ \A i \in ItemIds :
                items'[i] # items[i] =>
                    ( /\ last'.op \in {"update_item", "delete_item"}
                      /\ last'.arg = i
                      /\ last'.user = items[i].seller_id
                      /\ items'[i].seller_id = items[i].seller_id ) ]_vars

\* C10 witness: an update_item of another user's item was answered 403.
C10_Witness ==
    /\ last.op = "update_item"
    /\ last.status = 403
    /\ last.arg \in ItemIds
    /\ items[last.arg].seller_id # last.user

---------------------------------------------------------------------------
(* Properties of the chat endpoints *)

\* The rows of `rows` that user_id sent to u, each marked read.
AllRead(u, user_id, rows) ==
    { IF m.sender_id = user_id /\ m.receiver_id = u THEN [m EXCEPT !.is_read = TRUE] ELSE m
        : m \in rows }

Fetched == last.op = "get_conversation" /\ last.status = 200

\* C7: a conversation fetch by U for counterpart user_id marks read every
\* message user_id sent to U, whatever page and per_page were requested, and
\* changes nothing else; after it the counterpart's unread count is 0 in
\* get_conversations (any page) and in get_unread_count, and fetching again
\* (any page) would leave the chat table as it is.
C7_FetchMarksAllReadIdempotently ==
    /\ [][ (last'.op = "get_conversation" /\ last'.status = 200)
               => chats' = AllRead(last'.user, last'.arg, chats) ]_vars
    /\ [](Fetched =>
            /\ Unread(last.user, last.arg) = {}
            /\ \A pg \in PageArgs, pp \in PerPageArgs :
                  \A c \in Range(get_conversations(last.user, pg, pp)) :
                      c.user = last.arg => c.unread_count = 0
            /\ \A b \in get_unread_count(last.user).by_sender : b.sender_id # last.arg
            /\ \A pg \in PageArgs, pp \in PerPageArgs \cup {ConvDefaultPerPage} :
                  chats_after_fetch(last.user, last.arg, pg, pp) = chats)
    /\ [][ (Fetched /\ last'.op = "get_conversation" /\ last'.status = 200
              /\ last'.user = last.user /\ last'.arg = last.arg)
               => chats' = chats ]_vars

\* Two messages of the counterpart, more than a one-message page shows, are
\* read after a fetch, and the counterpart is listed with unread count 0.
C7_Witness ==
    /\ Fetched
    /\ Cardinality({m \in chats : m.sender_id = last.arg /\ m.receiver_id = last.user
                                   /\ m.is_read}) = 2
    /\ \E c \in Range(get_conversations(last.user, 1, ConvsDefaultPerPage)) :
          c.user = last.arg /\ c.unread_count = 0

Sent == last.op = "send_message" /\ last.user \in Users /\ last.arg \in Users \ {last.user}

\* C8 as stated: a submitted content of 5001 characters is always refused
\* with 400, and no stored row is longer than 5000.
C8_Refuses5001Submitted ==
    /\ (Sent /\ last.len = ContentMax + 1) => last.status = 400
    /\ \A m \in chats : ContentLen(m.content) <= ContentMax

\* C8: between a signed-in sender and another existing user, a content whose
\* length after strip() exceeds 5000 (5001 in particular) is answered 400 and
\* adds no row; a content whose length after strip() is exactly 5000 is
\* answered 201 and stored stripped, also when a surrounding blank makes the
\* submitted text 5001 long; no stored row is longer than 5000.
C8_StrippedLengthLimit ==
    /\ [](\A m \in chats : ContentLen(m.content) <= ContentMax)
    /\ [][ (last'.op = "send_message" /\ last'.user \in Users
              /\ last'.arg \in Users \ {last'.user}) =>
            \A b \in LimitBodies \ {NoContent} :
              (send_message(last'.user, last'.arg, b, MaxLimitMsgs)
                 /\ last'.len = ContentLen(b.content)) =>
                LET n == ContentLen(ContentStrip(b.content))
                IN  /\ n > ContentMax => last'.status = 400 /\ chats' = chats
                    /\ n = ContentMax =>
                          /\ last'.status = 201
                          /\ \E m \in chats' \ chats :
                                /\ chats' = chats \cup {m}
                                /\ m.content = ContentStrip(b.content)
                                /\ ContentLen(m.content) = ContentMax ]_vars
    /\ [][ (last'.op = "send_message" /\ last'.status = 400) => chats' = chats ]_vars
    /\ [](Sent /\ last.len > ContentMax /\ last.status = 201 =>
             \E m \in chats : m.id = next_chat_id - 1 /\ ContentLen(m.content) = ContentMax)

\* A 5001-character text ending in a blank was accepted and stored with 5000.
C8_Witness ==
    /\ Sent /\ last.status = 201 /\ last.len = ContentMax + 1
    /\ \E m \in chats : m.id = next_chat_id - 1 /\ ContentLen(m.content) = ContentMax

\* get_conversation shows message id to user p talking to q: on some page for
\* every per_page, and on the default first page when the conversation has at
\* most ConvDefaultPerPage messages.
ShownTo(p, q, id) ==
    /\ \A pp \in PerPageArgs :
          \E pg \in 1 .. get_conversation_data(p, q, 1, pp).pages :
              id \in Range(get_conversation_data(p, q, pg, pp).messages)
    /\ Cardinality(Conversation(p, q)) <= ConvDefaultPerPage
          => id \in Range(get_conversation_data(p, q, 1, ConvDefaultPerPage).messages)

\* C9: between a signed-in sender and another existing user, empty or
\* whitespace-only content is answered 400 and adds no message; valid content
\* is answered 201 and adds exactly one message, from the sender to the
\* recipient; that message is among those get_conversation returns to the
\* sender and to the recipient, and get_conversations of each lists the other.
C9_SendValidatesAndDelivers ==
    /\ [][ (last'.op = "send_message" /\ last'.user \in Users
              /\ last'.arg \in Users \ {last'.user}) =>
            \A b \in ChatBodies :
              (send_message(last'.user, last'.arg, b, MaxMsgs)
                 /\ last'.status = send_message_status(last'.user, last'.arg, b)) =>
                IF ContentStrip(b.content) = <<>>
                THEN last'.status = 400 /\ chats' = chats
                ELSE /\ last'.status = 201
                     /\ Cardinality(chats') = Cardinality(chats) + 1
                     /\ \E m \in chats' \ chats :
                           /\ chats' = chats \cup {m}
                           /\ m.sender_id = last'.user /\ m.receiver_id = last'.arg ]_vars
    /\ [][ last'.op = "send_message" =>
              IF last'.status = 201
              THEN Cardinality(chats' \ chats) = 1 /\ chats \subseteq chats'
              ELSE chats' = chats ]_vars
    /\ [](Sent /\ last.status = 201 =>
            \E m \in chats :
              /\ m.id = next_chat_id - 1
              /\ m.sender_id = last.user /\ m.receiver_id = last.arg
              /\ ShownTo(last.user, last.arg, m.id)
              /\ ShownTo(last.arg, last.user, m.id)
              /\ \E c \in Range(get_conversations(last.user, 1, ConvsDefaultPerPage)) :
                    c.user = last.arg /\ c.last_message = m.id
              /\ \E c \in Range(get_conversations(last.arg, 1, ConvsDefaultPerPage)) :
                    c.user = last.user /\ c.last_message = m.id)

\* A second message was accepted in a conversation, so that pages of one
\* message do not all show it.
C9_Witness ==
    /\ Sent /\ last.status = 201
    /\ Cardinality(Conversation(last.user, last.arg)) = 2
    /\ \E m \in chats : m.id = next_chat_id - 1 /\ ShownTo(last.arg, last.user, m.id)

---------------------------------------------------------------------------
(* Properties of the profile update *)

\* The request just served is a signed-in user's profile update that names
\* an image, answered after the existence check could be made.
ImageSubmitted(l) ==
    /\ l.op = "update_current_user" /\ l.user \in Users
    /\ Strip(l.arg.data.uploaded_image_filename) # <<>>
    /\ l.arg.s3_up

\* C11: a profile update naming an image whose object is not in the bucket
\* (head_object answers, and reports it missing) is answered 400; the user's
\* profile_image, first_name and last_name, and every other account, stay as
\* they were, and delete_file is not called: no key is added to the deleted
\* ones and no object leaves the bucket.
C11_MissingObjectChangesNothing ==
    [][ (ImageSubmitted(last')
          /\ Strip(last'.arg.data.uploaded_image_filename) \notin bucket)
        => /\ last'.status = 400
           /\ accounts' = accounts
           /\ deleted_files' = deleted_files
           /\ bucket' = bucket ]_vars

\* The refused update came from a user who has an old image, named a
\* well-formed new key that was never uploaded, and carried a new first name.
C11_Witness ==
    /\ ImageSubmitted(last) /\ last.status = 400
    /\ LET new == Strip(last.arg.data.uploaded_image_filename)
           row == accounts[last.user]
       IN  /\ new \notin bucket
           /\ StartsWith(new, PROFILE_IMAGES_FOLDER \o <<"/">>)
           /\ row.profile_image \notin {None, new}
           /\ row.first_name # Strip(last.arg.data.first_name)
           /\ name_ok(last.arg.data.first_name) /\ name_ok(last.arg.data.last_name)

---------------------------------------------------------------------------
(* Properties of pagination *)

\* ceil(total / per_page)
Ceil(total, per_page) ==
    IF total % per_page = 0 THEN total \div per_page ELSE (total \div per_page) + 1

\* list_items queries without filters, over the page and per_page arguments
PagingQueries ==
    [ search : {<<>>}, category : {<<>>}, seller_type : {<<>>}, condition : {<<>>},
      sort_by : {"newest"}, page : PageArgs, per_page : PerPageArgs ]

\* A response r with `rows` returned out of `total` matching rows: at most
\* per_page rows, page >= 1, per_page in [1, 100], and total and pages echoed.
Paginated(r, rows, total) ==
    /\ {"page", "per_page", "total", "pages"} \subseteq DOMAIN r
    /\ r.page >= 1
    /\ r.per_page \in 1 .. ListMaxPerPage
    /\ Len(rows) <= r.per_page
    /\ r.total = total
    /\ r.pages = Ceil(total, r.per_page)

\* The item and user list endpoints and the conversation detail paginate.
ItemListsPaginated ==
    /\ \A q \in PagingQueries :
          LET r == list_items(q)
          IN  Paginated(r, r.items, Cardinality({i \in ItemIds : list_items_filter(q, i)}))
    /\ \A u \in Users, pg \in PageArgs, pp \in PerPageArgs :
          /\ LET r == get_user_listings(u, pg, pp)
             IN  Paginated(r, r.items,
                           Cardinality({i \in ItemIds : user_listings_filter(u, i)}))
          /\ LET r == get_my_listings(u, <<>>, pg, pp)
             IN  Paginated(r, r.items,
                           Cardinality({i \in ItemIds : my_listings_filter(u, <<>>, i)}))
          /\ LET r == get_my_favorites(u, pg, pp)
                 fav == {i \in ItemIds : my_favorites_filter(u, i)}
             IN  Paginated(r, r.items,
                           BagCardinality([x \in {<<u, i>> : i \in fav} |-> favorites[x]]))

ConversationPaginated ==
    \A u \in Users, o \in Users, pg \in PageArgs, pp \in PerPageArgs :
        LET r == get_conversation_data(u, o, pg, pp)
        IN  Paginated(r, r.messages, Cardinality(Conversation(u, o)))

\* C12: every list endpoint returns at most per_page rows, with page >= 1
\* and per_page in [1, 100], and echoes page, per_page, total and pages,
\* total being the number of matching rows and pages ceil(total / per_page):
\* list_items, get_user_listings, get_my_listings, get_my_favorites,
\* get_conversation and get_conversations.
C12_EveryListEndpointPaginates ==
    /\ ItemListsPaginated
    /\ ConversationPaginated
    /\ last.op = "get_conversations" /\ last.status = 200 =>
          \A pg \in PageArgs, pp \in PerPageArgs :
              Paginated(get_conversations_pagination(pg, pp),
                        get_conversations(last.user, pg, pp),
                        Len(Counterparts(last.user)))

\* C13: list_items answers a per_page above 100 with an effective per_page
\* of 100, a per_page below 1 with 1, and a page below 1 with page 1.
C13_ListItemsClampsPerPage ==
    last.op = "list_items" =>
        \A q \in PagingQueries :
            LET r == list_items(q)
            IN  /\ q.per_page > ListMaxPerPage => r.per_page = ListMaxPerPage
                /\ q.per_page < 1 => r.per_page = 1
                /\ q.page < 1 => r.page = 1

---------------------------------------------------------------------------
(* Properties of the auth endpoints *)

\* C14: forgot-password answers a request for a registered address and one
\* for an unregistered address, both non-empty, with the same status and the
\* same body, a success; and every forgot-password request with a non-empty
\* email that was served got that answer.
C14_ForgotPasswordHidesAccounts ==
    /\ \A e1 \in ForgotEmails, e2 \in ForgotEmails :
          (Registered(NormalEmail(e1)) /\ NormalEmail(e2) # <<>>
             /\ ~Registered(NormalEmail(e2)))
          => /\ api_forgot_password_response(e1) = api_forgot_password_response(e2)
             /\ api_forgot_password_response(e1).status = 200
             /\ api_forgot_password_response(e1).success
    /\ (last.op = "api_forgot_password" /\ NormalEmail(last.arg) # <<>>)
          => last.body = success_response("Password reset instructions sent")

\* A request for an unregistered address has just been answered, after one
\* for a registered address issued that account a token.
C14_Witness ==
    /\ last.op = "api_forgot_password"
    /\ NormalEmail(last.arg) # <<>> /\ ~Registered(NormalEmail(last.arg))
    /\ last.body.status = 200
    /\ \E k \in DOMAIN accounts : accounts[k].reset_token = Token

\* C15: a signup whose password and confirm_password differ is answered 400
\* with an error for the password field in the errors map, and creates no
\* user row.
C15_MismatchIsAFieldError ==
    [][ (last'.op = "api_signup" /\ last'.arg.password # last'.arg.confirm_password)
        => /\ last'.body.status = 400
           /\ "password" \in last'.body.errors
           /\ accounts' = accounts ]_vars

---------------------------------------------------------------------------
(* Properties of item field validation *)

FloatAtLeast(a, b) == a # NaN /\ b # NaN /\ a >= b

\* The text is a decimal number that is not negative, once '$' and ',' are
\* removed and it is stripped.
NonNegativeNumeral(text) ==
    LET t == Strip(Remove(Remove(text, "$"), ","))
    IN  t # <<>> /\ \A k \in 1 .. Len(t) : IsDigit(t[k])

\* C18: every stored item has a price >= 0, and a create_item or a seller's
\* update_item that carries a price text which is negative or not a number
\* is answered 400.
C18_StoredPricesAreNonNegative ==
    /\ \A i \in ItemIds : FloatAtLeast(items[i].price, 0)
    /\ ( /\ last.op \in {"create_item", "update_item"}
         /\ last.user \in Users
         /\ last.op = "update_item" =>
               (last.arg \in ItemIds /\ items[last.arg].seller_id = last.user)
         /\ last.data.price.t = "str"
         /\ last.data.price.s # <<>>
         /\ ~NonNegativeNumeral(last.data.price.s) )
        => last.status = 400

\* C19: every stored item has a non-empty title of at most 150 characters.
C19_StoredTitlesAreBounded ==
    \A i \in ItemIds : items[i].title # <<>> /\ Len(items[i].title) <= TitleMax

---------------------------------------------------------------------------
(* Properties of stored messages *)

\* The rows m and n agree on everything but the is_read flag.
SameMessage(m, n) ==
    /\ m.id = n.id
    /\ m.sender_id = n.sender_id /\ m.receiver_id = n.receiver_id
    /\ m.content = n.content /\ m.timestamp = n.timestamp

\* C17: no request changes the sender_id, receiver_id, content or timestamp
\* of a stored message; a message leaves the table only by a delete_message
\* of its sender that is answered 200; delete_message by a signed-in user
\* who is not the sender is answered 403 and for an id without a row 404,
\* and both leave the table as it was.
C17_MessagesAreImmutable ==
    /\ [][ \A m \in chats :
              \/ \E n \in chats' : SameMessage(m, n)
              \/ /\ \A n \in chats' : n.id # m.id
                 /\ last'.op = "delete_message" /\ last'.status = 200
                 /\ last'.arg = m.id /\ last'.user = m.sender_id ]_vars
    /\ [][ (last'.op = "delete_message" /\ last'.user \in Users) =>
              LET rows == {m \in chats : m.id = last'.arg}
              IN  IF rows = {} THEN last'.status = 404 /\ chats' = chats
                  ELSE IF \E m \in rows : m.sender_id # last'.user
                  THEN last'.status = 403 /\ chats' = chats
                  ELSE last'.status = 200 /\ chats' = chats \ rows ]_vars

\* The recipient of a message that has been read was just refused its
\* deletion, and the message is still stored.
C17_Witness ==
    /\ last.op = "delete_message" /\ last.status = 403
    /\ \E m \in chats : m.id = last.arg /\ m.receiver_id = last.user /\ m.is_read

\* C20: every stored message has a sender and a receiver that differ and
\* both exist; send_message to oneself is answered 400 and to a user id
\* without a row 404, and neither adds a message.
C20_MessagesJoinTwoUsers ==
    /\ [](\A m \in chats :
             /\ m.sender_id # m.receiver_id
             /\ m.sender_id \in DOMAIN accounts /\ m.receiver_id \in DOMAIN accounts)
    /\ [][ (last'.op = "send_message" /\ last'.user \in Users) =>
              /\ last'.arg = last'.user => (last'.status = 400 /\ chats' = chats)
              /\ last'.arg \notin DOMAIN accounts =>
                    (last'.status = 404 /\ chats' = chats) ]_vars

\* With messages stored, a send to a user id that has no row was refused.
C20_Witness ==
    /\ last.op = "send_message" /\ last.user \in Users
    /\ last.arg \notin DOMAIN accounts /\ last.status = 404
    /\ chats # {}

---------------------------------------------------------------------------
(* Properties of the upload keys *)

Issued(l) == l.op = "profile_image_put_url" /\ l.status = 200

\* C21: two successful profile-image-url requests never return the same
\* newFilename; stated for a request and the successful request before it.
C21_IssuedKeysDiffer ==
    [][ (Issued(last) /\ Issued(last')) => last'.data # last.data ]_vars

---------------------------------------------------------------------------
(* Properties of the deletion of replaced profile images *)

\* C22: a profile update calls delete_file, or removes an object, only when
\* it is answered 200 with the named image committed as the user's
\* profile_image, and then for the image the user had before; and when the
\* image is replaced and delete_object fails, the request is still answered
\* 200, the new profile_image is stored and the old object stays.
C22_DeletionFollowsCommit ==
    [][ (last'.op = "update_current_user" /\ last'.user \in Users) =>
          LET u   == last'.user
              new == Strip(last'.arg.data.uploaded_image_filename)
              old == accounts[u].profile_image
          IN  /\ (deleted_files' # deleted_files \/ bucket' # bucket) =>
                    /\ last'.status = 200 /\ last'.arg.commit_ok
                    /\ new # <<>> /\ accounts'[u].profile_image = new
                    /\ old # None
                    /\ deleted_files' = deleted_files \cup {old}
                    /\ bucket' = IF last'.arg.delete_up THEN bucket \ {old} ELSE bucket
              /\ last'.status # 200 =>
                    (deleted_files' = deleted_files /\ bucket' = bucket /\ accounts' = accounts)
              /\ ( /\ new # <<>> /\ old # None /\ ~last'.arg.delete_up
                   /\ name_ok(last'.arg.data.first_name) /\ name_ok(last'.arg.data.last_name)
                   /\ validate_profile_image_upload(new, old, last'.arg.s3_up) = "valid"
                   /\ last'.arg.commit_ok ) =>
                    /\ last'.status = 200
                    /\ accounts'[u].profile_image = new
                    /\ deleted_files' = deleted_files \cup {old}
                    /\ bucket' = bucket ]_vars

\* The update just answered 200 replaced an image while delete_object was
\* failing: the new image is stored, the old object is still in the bucket
\* and its deletion was attempted.
C22_Witness ==
    /\ last.op = "update_current_user" /\ last.user \in Users /\ last.status = 200
    /\ ~last.arg.delete_up
    /\ accounts[last.user].profile_image = Strip(last.arg.data.uploaded_image_filename)
    /\ \E old \in deleted_files : old \in bucket /\ old # accounts[last.user].profile_image

---------------------------------------------------------------------------
(* Properties of the existence check *)

\* The keys a profile update may name.
NamedKeys == {Strip(data.uploaded_image_filename) : data \in ProfileBodies}

\* C23: file_exists answers False exactly for a key the bucket reports
\* absent and raises when head_object fails otherwise; a profile update
\* whose existence check raises is answered 500 and leaves every account,
\* the bucket and the deleted keys as they were.
C23_StorageErrorsAreNotAbsence ==
    /\ [](\A key \in NamedKeys :
             /\ file_exists(key, TRUE) = (IF key \in bucket THEN "true" ELSE "false")
             /\ file_exists(key, FALSE) = "raise")
    /\ [][ ( /\ last'.op = "update_current_user" /\ last'.user \in Users
             /\ Strip(last'.arg.data.uploaded_image_filename) # <<>>
             /\ ~last'.arg.s3_up
             /\ name_ok(last'.arg.data.first_name) /\ name_ok(last'.arg.data.last_name)
             /\ LET new == Strip(last'.arg.data.uploaded_image_filename)
                IN  /\ StartsWith(new, PROFILE_IMAGES_FOLDER \o <<"/">>)
                    /\ new # accounts[last'.user].profile_image )
           => /\ last'.status = 500
              /\ accounts' = accounts
              /\ deleted_files' = deleted_files
              /\ bucket' = bucket ]_vars

\* The update just answered 500 named a well-formed key that is not in the
\* bucket while head_object was failing; its user has an old image and sent
\* a new first name.
C23_Witness ==
    /\ last.op = "update_current_user" /\ last.user \in Users /\ last.status = 500
    /\ ~last.arg.s3_up
    /\ LET new == Strip(last.arg.data.uploaded_image_filename)
           row == accounts[last.user]
       IN  /\ StartsWith(new, PROFILE_IMAGES_FOLDER \o <<"/">>)
           /\ new \notin bucket
           /\ row.profile_image \notin {None, new}
           /\ row.first_name # Strip(last.arg.data.first_name)

---------------------------------------------------------------------------
(* Properties of interleaved requests *)

\* The rows of (u, id) in the association table and in recently_viewed.
Rows(u, id) == [fav |-> CopiesIn(<<u, id>>, favorites), views |-> Cardinality(ExistingViews(u, id))]

\* C24: in add_favorite and in get_item the existence check and the insert
\* are separate steps: what a request found when it checked, and not what
\* the table holds when it commits, decides whether it inserts. (With two
\* requests checking before either commits, both insert: the witness.)
C24_CheckThenInsertIsNotAtomic ==
    /\ [][ \A r \in BagToSet(inflight') :
              CopiesIn(r, inflight') > CopiesIn(r, inflight) =>
              r.seen = (IF r.op = "add_favorite"
                        THEN CopiesIn(<<r.user, r.arg>>, favorites) > 0
                        ELSE ExistingViews(r.user, r.arg) # {}) ]_vars
    /\ [][ \A r \in BagToSet(inflight) :
              CopiesIn(r, inflight') < CopiesIn(r, inflight) =>
              IF r.op = "add_favorite"
              THEN CopiesIn(<<r.user, r.arg>>, favorites') =
                     CopiesIn(<<r.user, r.arg>>, favorites) + (IF r.seen THEN 0 ELSE 1)
              ELSE Cardinality({v \in recently_viewed' : v.user_id = r.user /\ v.item_id = r.arg}) =
                     Cardinality(ExistingViews(r.user, r.arg)) + (IF r.seen THEN 0 ELSE 1) ]_vars

\* One user has the same item twice among their favorites and twice among
\* their recently viewed items.
C24_Witness ==
    \E u \in Users, id \in ItemIds : Rows(u, id).fav >= 2 /\ Rows(u, id).views >= 2

---------------------------------------------------------------------------
(* Properties of the stored profile images *)

\* C25: every user's profile_image that is not None names an object of the
\* bucket.
C25_ProfileImagesExist ==
    \A u \in Users :
        accounts[u].profile_image # None => accounts[u].profile_image \in bucket

---------------------------------------------------------------------------
(* Properties of the read flag *)

\* The messages a step marks read.
MarkedRead == {m \in chats : ~m.is_read /\ \E n \in chats' : n.id = m.id /\ n.is_read}

\* C26: every message a get_conversation request marks read is among the
\* messages that request returns.
C26_MarkedReadWasDelivered ==
    [][ (last'.op = "get_conversation" /\ last'.status = 200) =>
          \A m \in MarkedRead : \E k \in 1 .. Len(last'.data) : last'.data[k] = m.id ]_vars

\* C27: a message that is read stays read, and a step changes the is_read
\* flag of a message only when it is a get_conversation or
\* mark_messages_as_read request answered 200, made by the message's
\* receiver and naming the message's sender.
C27_ReadFlagIsTheReceivers ==
    [][ \A m \in chats : \A n \in chats' :
          n.id = m.id =>
            /\ m.is_read => n.is_read
            /\ n.is_read # m.is_read =>
                 /\ last'.op \in {"get_conversation", "mark_messages_as_read"}
                 /\ last'.status = 200
                 /\ last'.user = m.receiver_id
                 /\ last'.arg = m.sender_id ]_vars

\* A user who has received and sent messages just marked the received ones
\* read; the one they sent is still unread.
C27_Witness ==
    /\ last.op = "mark_messages_as_read" /\ last.status = 200
    /\ \E m \in chats : m.receiver_id = last.user /\ m.sender_id = last.arg /\ m.is_read
    /\ \E m \in chats : m.sender_id = last.user /\ m.receiver_id = last.arg /\ ~m.is_read

====
